---------------------------- MODULE Spec2Model ----------------------------
(***************************************************************************)
(* A model of the Pigeonhole Sieve library interface (lib-sieve/sieve.c),  *)
(* the require command (cmd-require.c) and the extension registry          *)
(* (sieve-extensions.c).                                                   *)
(*                                                                         *)
(* Spec        : one execution session: sieve_execute, or a multiscript    *)
(*               chain start .. run* .. run_discard .. tempfail/finish.    *)
(* SpecCompile : the extension registry and sieve_compile_script with the  *)
(*               validation of `require'.                                  *)
(* SpecRegistry: the calls of the extension registry: register, require,   *)
(*               set_string, and compilations in between.                  *)
(* SpecSize    : the size test at run time (tst-size.c).                   *)
(* SpecMatch   : sieve_address_match over parsed address lists.            *)
(* SpecOptionals: the optional operands of an address test decoded and     *)
(*               dumped.                                                   *)
(* SpecOpen    : sieve_open_script over stored binaries and sources.       *)
(* SpecAddrp   : address-part operands generated into a binary and read    *)
(*               back (sieve-address-parts.c).                             *)
(* SpecConcurrent: two instances that compile at the same time, next to    *)
(*               a sieve_extension_require call of the host application    *)
(*               that runs statement by statement.                         *)
(*                                                                         *)
(* The result object (sieve-result.c), the interpreter, the parser, the    *)
(* validator driver and the generator are not part of the sources at hand; *)
(* they are modelled from the specification document and said so where     *)
(* they are defined.                                                       *)
(***************************************************************************)
EXTENDS Integers, Sequences, FiniteSets, TLC

VARIABLES
    (* ---- execution session (sieve.c) ---- *)
    phase,          \* "none" | "ms" (multiscript open) | "done" | "panic"
    mscript,        \* struct sieve_multiscript: status, keep, active, ...
    result,         \* the (shared) struct sieve_result
    delivered,      \* what the delivery collaborator was asked to do
    calls,          \* the API calls made so far, with the binary supplied
    last,           \* the last API call: what it returned and what it did
    (* ---- extension registry (sieve-extensions.c) ---- *)
    reg,            \* the registrations, the id slots, the load hook calls
    ext_state,      \* "up" | "hung" (sieve_extensions_set_string loops)
                    \*   | "crashed" (a NULL extension was dereferenced)
                    \*   | "down" (sieve_extensions_deinit freed it)
    (* ---- compilation (sieve.c, cmd-require.c) ---- *)
    comp,           \* the last sieve_compile_script call and what it did
    (* ---- size test at run time (tst-size.c) ---- *)
    mail,           \* the message: its physical size, if it can be had
    interp,         \* the interpreter: test register, address, last operation
    sz,             \* the last size test validated and what was generated
    (* ---- address-part operands (sieve-address-parts.c) ---- *)
    binary,         \* the binary: code bytes, extension table, registry
    ap,             \* the operands generated, and the last operand read
    (* ---- address matching and optional operands ---- *)
    am,             \* the last sieve_address_match call and what it did
    opt,            \* the last decoding of an optional-operand trailer
    (* ---- opening a script (sieve.c) ---- *)
    os,             \* the last sieve_open_script call and what it did
    ru,             \* the resource usage accumulated, and the last addition
    (* ---- instances compiling at the same time (sieve.c, cmd-require.c) ---- *)
    inst,           \* per instance: where its sieve_compile_script call stands
    host            \* where the sieve_extension_require call of the host stands

execVars == <<phase, mscript, result, delivered, calls, last>>
compVars == <<reg, ext_state, comp>>
sizeVars == <<mail, interp, sz>>
addrpVars == <<binary, ap>>
matchVars == <<am, opt>>
openVars == <<os, ru>>
instVars == <<inst, host>>

-----------------------------------------------------------------------------
(* enum sieve_execution_exitcode *)
SIEVE_EXEC_OK == 1
SIEVE_EXEC_FAILURE == 0
SIEVE_EXEC_TEMP_FAILURE == -1
SIEVE_EXEC_BIN_CORRUPT == -2
SIEVE_EXEC_KEEP_FAILED == -3
SIEVE_EXEC_RESOURCE_LIMIT == -4

(* Bound: number of API calls made in one session. *)
MaxCalls == 3

(* Bound: length of the string given to sieve_extensions_set_string. *)
MaxStrLen == 3

(* Bound: number of top-level commands of a script. *)
MaxCmds == 2

(* Bound: largest message size and largest limit of a size test. *)
MaxSize == 4

(* Bound: number of names in a list given to sieve_extensions_set_string.  *)
MaxNames == 2

(* Bound: number of calls of the load hook of one extension. *)
MaxLoads == 2

(* The number of address-part operands generated into one binary. *)
MaxOperands == 2

(* Bound: the arguments of a size test in a script. *)
MaxArgs == 3

(* Bound: the code bytes of a binary that was not generated here. *)
MaxBytes == 3

(* Bound: number of addresses in a header. *)
MaxAddrs == 2

(* Bound: number of options in an optional-operand trailer. *)
MaxOptions == 2

(* Bound: the CPU time limit of an instance, in seconds. *)
MaxCpuSecs == 2

(* Bound: the modification times of sources and binaries. *)
MaxMtime == 2

(* Bound: the additions to one resource usage. *)
MaxAdds == 3

-----------------------------------------------------------------------------
(* Actions a script can add to the result. *)
ActKeep == [kind |-> "keep", folder |-> "INBOX"]
ActFileinto(f) == [kind |-> "fileinto", folder |-> f]
ActDiscard == [kind |-> "discard", folder |-> ""]

(* The action lists of the scripts considered. *)
ScriptActs ==
    { <<>>, <<ActKeep>>, <<ActFileinto("A")>>, <<ActDiscard>>,
      <<ActFileinto("A"), ActKeep>>, <<ActFileinto("A"), ActDiscard>>,
      <<ActFileinto("A"), ActFileinto("A")>> }

(* What the interpreter can end with. *)
InterpStatuses ==
    { SIEVE_EXEC_OK, SIEVE_EXEC_FAILURE, SIEVE_EXEC_TEMP_FAILURE,
      SIEVE_EXEC_BIN_CORRUPT, SIEVE_EXEC_RESOURCE_LIMIT }

(* A binary, as far as running it goes: whether an interpreter can be      *)
(* created for it, the actions it adds before it ends, and the status it   *)
(* ends with.                                                              *)
Binaries ==
    { b \in [loads : BOOLEAN, acts : ScriptActs, ret : InterpStatuses] :
        /\ (~b.loads => (b.acts = <<>> /\ b.ret = SIEVE_EXEC_BIN_CORRUPT))
        /\ (b.ret # SIEVE_EXEC_OK => b.acts \in {<<>>, <<ActFileinto("A")>>}) }

NoBin == [loads |-> FALSE, acts |-> <<>>, ret |-> SIEVE_EXEC_OK]

(* Outcomes of one request to the delivery collaborator. *)
Outcomes == {"ok", "fail", "temp"}

-----------------------------------------------------------------------------
(* The result object.                                                      *)

(* sieve_result_create: no actions, nothing executed, keep stores. *)
sieve_result_create ==
    [ actions |-> <<>>,           \* accumulated actions, duplicates collapsed
      done |-> 0,                 \* how many of them have been executed
      new_disp |-> FALSE,         \* a storing/discarding action was added
                                  \*   since the last execution
      new_keep |-> FALSE,         \* an explicit keep was added since then
      executed |-> FALSE,         \* sieve_result_executed
      executed_delivery |-> FALSE,\* sieve_result_executed_delivery
      keep_action |-> "store" ]   \* "none": the keep is deferred

sieve_result_set_keep_action(res, act) == [res EXCEPT !.keep_action = act]

InSeq(s, a) == \E i \in 1..Len(s) : s[i] = a

(* Adding an action: a duplicate collapses. *)
sieve_result_add_action(res, a) ==
    [res EXCEPT
        !.actions = IF InSeq(@, a) THEN @ ELSE Append(@, a),
        !.new_disp = @ \/ a.kind \in {"fileinto", "keep", "discard"},
        !.new_keep = @ \/ a.kind = "keep"]

RECURSIVE AddAll(_, _)
AddAll(res, acts) ==
    IF acts = <<>> THEN res
    ELSE AddAll(sieve_result_add_action(res, Head(acts)), Tail(acts))

(* sieve_interpreter_run: the actions of the script accumulate in the      *)
(* result, and the interpreter's status is returned.                       *)
sieve_interpreter_run(bin, res) ==
    [ret |-> bin.ret, result |-> AddAll(res, bin.acts)]

(* A world: the result and the log of the delivery collaborator. *)
World(res, dlv) == [result |-> res, delivered |-> dlv]

Store(f, implicit, ok) == [to |-> f, implicit |-> implicit, ok |-> ok]

(* sieve_result_implicit_keep(result, ehandler, success): store the        *)
(* message into the default folder. After a success the keep action        *)
(* decides (a deferred keep stores nothing); after a failure the message   *)
(* is stored. k is the collaborator's answer.                              *)
sieve_result_implicit_keep(w, success, k) ==
    IF success /\ w.result.keep_action = "none"
    THEN [ret |-> SIEVE_EXEC_OK, w |-> w]
    ELSE IF k = "ok"
    THEN [ret |-> SIEVE_EXEC_OK,
          w |-> World([w.result EXCEPT !.executed = TRUE,
                                       !.executed_delivery = TRUE],
                      Append(w.delivered, Store("INBOX", TRUE, TRUE)))]
    ELSE [ret |-> IF k = "temp" THEN SIEVE_EXEC_TEMP_FAILURE
                  ELSE SIEVE_EXEC_FAILURE,
          w |-> World(w.result,
                      Append(w.delivered, Store("INBOX", TRUE, FALSE)))]

Pending(res) == SubSeq(res.actions, res.done + 1, Len(res.actions))

Delivers(res, a) ==
    \/ a.kind = "fileinto"
    \/ a.kind = "keep" /\ res.keep_action = "store"

RECURSIVE Stores(_, _)
Stores(res, acts) ==
    IF acts = <<>> THEN <<>>
    ELSE IF Delivers(res, Head(acts))
    THEN <<Store(Head(acts).folder, FALSE, TRUE)>> \o Stores(res, Tail(acts))
    ELSE Stores(res, Tail(acts))

(* The keep out-parameter of sieve_result_execute and sieve_result_print:   *)
(* whether a keep is in effect for the actions added since the last        *)
(* execution, that is an explicit keep, or the implicit keep of Phase B    *)
(* that applies when no action stores or discards the message.  sieve.c    *)
(* gives the field it passes this meaning where it sets it itself:         *)
(* mscript->keep = TRUE exactly where its own implicit keep has worked     *)
(* (sieve_multiscript_execute, sieve_multiscript_finish).  A script that   *)
(* only files the message into a folder gets no implicit keep and has no   *)
(* explicit one: no keep is in effect.                                     *)
ImplicitKeep(res) == ~res.new_disp
KeepInEffect(res) == ImplicitKeep(res) \/ res.new_keep

(* sieve_result_execute(result, last, &keep, ehandler).                    *)
(* Phase A executes the actions not executed before; d is the              *)
(* collaborator's answer to the first delivery. Phase B performs the       *)
(* implicit keep when no action stored or discarded; k is the answer.      *)
sieve_result_execute(w, d, k) ==
    LET res == w.result
        pend == Pending(res)
        dl == Stores(res, pend)
    IN  IF dl # <<>> /\ d # "ok"
        THEN [ret |-> IF d = "temp" /\ ~res.executed
                      THEN SIEVE_EXEC_TEMP_FAILURE ELSE SIEVE_EXEC_FAILURE,
              keep |-> FALSE,
              w |-> World(res, Append(w.delivered,
                                      [dl[1] EXCEPT !.ok = FALSE]))]
        ELSE
        LET resA == [res EXCEPT
                        !.done = Len(res.actions),
                        !.new_disp = FALSE,
                        !.new_keep = FALSE,
                        !.executed = @ \/ (\E i \in 1..Len(pend) :
                            Delivers(res, pend[i]) \/ pend[i].kind = "discard"),
                        !.executed_delivery = @ \/ dl # <<>>]
            wA == World(resA, w.delivered \o dl)
            ik == sieve_result_implicit_keep(wA, TRUE, k)
        IN  IF ~ImplicitKeep(res)
            THEN [ret |-> SIEVE_EXEC_OK, keep |-> KeepInEffect(res), w |-> wA]
            ELSE [ret |-> IF ik.ret = SIEVE_EXEC_OK THEN SIEVE_EXEC_OK
                          ELSE IF ik.ret = SIEVE_EXEC_TEMP_FAILURE
                                  /\ ~resA.executed
                          THEN SIEVE_EXEC_TEMP_FAILURE
                          ELSE SIEVE_EXEC_KEEP_FAILED,
                  keep |-> TRUE,
                  w |-> ik.w]

(* sieve_result_print: prints the result, executes nothing; p tells        *)
(* whether writing to the stream worked.                                   *)
sieve_result_print(w, p) ==
    [ok |-> p, keep |-> KeepInEffect(w.result)]

(* sieve_result_mark_executed *)
sieve_result_mark_executed(res) ==
    [res EXCEPT !.done = Len(res.actions), !.new_disp = FALSE,
                !.new_keep = FALSE, !.executed = TRUE]


-----------------------------------------------------------------------------
(* sieve.c: running a binary.                                              *)

(* sieve_run: BIN_CORRUPT when no interpreter can be created, else the     *)
(* interpreter's status.                                                   *)
sieve_run(bin, res) ==
    IF ~bin.loads
    THEN [ret |-> SIEVE_EXEC_BIN_CORRUPT, result |-> res]
    ELSE sieve_interpreter_run(bin, res)

(* What sieve_execute returns after its implicit keep returned ikret. *)
ExecuteKeepStatus(ret, ikret) ==
    IF ikret = SIEVE_EXEC_OK THEN ret
    ELSE IF ikret = SIEVE_EXEC_TEMP_FAILURE THEN SIEVE_EXEC_TEMP_FAILURE
    ELSE SIEVE_EXEC_KEEP_FAILED

(* sieve_execute with `if' for `else if': the implicit keep is also tried  *)
(* after a result execution that ended with FAILURE.                       *)
sieve_execute_fallthrough(bin, d, k) ==
    LET r == sieve_run(bin, sieve_result_create)
        w1 == World(r.result, <<>>)
        e == IF r.ret > 0
             THEN LET x == sieve_result_execute(w1, d, k)
                  IN  [ret |-> x.ret, w |-> x.w]
             ELSE [ret |-> r.ret, w |-> w1]
    IN  IF e.ret = SIEVE_EXEC_FAILURE
        THEN LET ik == sieve_result_implicit_keep(e.w, FALSE, k)
             IN  [ret |-> ExecuteKeepStatus(e.ret, ik.ret), w |-> ik.w]
        ELSE e

(* sieve_execute: returns the status; w is the world it leaves. *)
sieve_execute(bin, d, k) ==
    LET res0 == sieve_result_create
        r == sieve_run(bin, res0)
        w1 == World(r.result, <<>>)
    IN  IF r.ret > 0
        THEN LET e == sieve_result_execute(w1, d, k)
             IN  [ret |-> e.ret, w |-> e.w]
        ELSE IF r.ret = SIEVE_EXEC_FAILURE
        THEN LET ik == sieve_result_implicit_keep(w1, FALSE, k)
             IN  [ret |-> ExecuteKeepStatus(r.ret, ik.ret), w |-> ik.w]
        ELSE [ret |-> r.ret, w |-> w1]

(* sieve_test: the result of a successful run is printed; p tells whether  *)
(* writing to the stream worked.                                           *)
sieve_test(bin, p) ==
    LET r == sieve_run(bin, sieve_result_create)
        w1 == World(r.result, <<>>)
    IN  [ret |-> IF r.ret > 0
                 THEN IF sieve_result_print(w1, p).ok THEN SIEVE_EXEC_OK
                      ELSE SIEVE_EXEC_FAILURE
                 ELSE r.ret,
         w |-> w1]

-----------------------------------------------------------------------------
(* sieve.c: multiscript support.                                           *)

(* sieve_multiscript_start_execute / sieve_multiscript_start_test *)
sieve_multiscript_start(test) ==
    [ m |-> [status |-> SIEVE_EXEC_OK, keep |-> TRUE, active |-> TRUE,
             discard_handled |-> FALSE, teststream |-> test],
      result |-> sieve_result_set_keep_action(sieve_result_create, "none") ]

(* sieve_multiscript_test *)
sieve_multiscript_test(m, w, p) ==
    LET pr == sieve_result_print(w, p)
        m1 == IF m.status > 0
              THEN [m EXCEPT !.status = IF pr.ok THEN SIEVE_EXEC_OK
                                        ELSE SIEVE_EXEC_FAILURE,
                             !.keep = pr.keep]
              ELSE [m EXCEPT !.keep = TRUE]
    IN  [m |-> m1,
         w |-> World(sieve_result_mark_executed(w.result), w.delivered)]

(* sieve_multiscript_execute: the implicit keep failed *)
KeepFailedLax(ikret) == ikret < 0
KeepFailed(ikret) == ikret <= 0

(* sieve_multiscript_execute *)
sieve_multiscript_execute(m, w, d, k) ==
    IF m.status > 0
    THEN LET e == sieve_result_execute(w, d, k)
         IN  [m |-> [m EXCEPT !.status = e.ret, !.keep = e.keep], w |-> e.w]
    ELSE LET ik == sieve_result_implicit_keep(w, FALSE, k)
         IN  [m |-> IF KeepFailed(ik.ret)
                    THEN [m EXCEPT !.status = SIEVE_EXEC_KEEP_FAILED]
                    ELSE [m EXCEPT !.keep = TRUE],
              w |-> ik.w]

(* The same, with the result executed in test mode as well. *)
TestOrExecuteAlways(m, w, d, k, p) ==
    sieve_multiscript_execute(m, w, d, k)

(* The part of sieve_multiscript_run and sieve_multiscript_run_discard     *)
(* that tests or executes the result after a run with status >= 0.         *)
TestOrExecute(m, w, d, k, p) ==
    IF m.teststream
    THEN sieve_multiscript_test(m, w, p)
    ELSE sieve_multiscript_execute(m, w, d, k)

(* sieve_multiscript_run: the chain is no longer active *)
InactiveNever(m) == FALSE
Inactive(m) == ~m.active

(* sieve_multiscript_run, sieve_multiscript_run_discard: the result is     *)
(* tested or executed after the run                                        *)
StatusAlwaysExecutes(status) == TRUE
StatusExecutes(status) == status >= 0

(* sieve_multiscript_run: the chain ends when no keep is in effect *)
Deactivate(m) == IF ~m.keep THEN [m EXCEPT !.active = FALSE] ELSE m

(* sieve_multiscript_run that returns FALSE for an inactive chain only *)
sieve_multiscript_run_active(m, w, bin, d, k, p) ==
    IF Inactive(m)
    THEN [ret |-> FALSE, ran |-> FALSE, m |-> m, w |-> w]
    ELSE
    LET r == sieve_run(bin, w.result)
        m1 == [m EXCEPT !.status = r.ret]
        w1 == World(r.result, w.delivered)
        x == IF StatusExecutes(m1.status)
             THEN LET t == TestOrExecute([m1 EXCEPT !.keep = FALSE],
                                         w1, d, k, p)
                  IN  [m |-> Deactivate(t.m), w |-> t.w]
             ELSE [m |-> m1, w |-> w1]
    IN  IF ~x.m.active
        THEN [ret |-> FALSE, ran |-> TRUE,
              m |-> [x.m EXCEPT !.active = FALSE], w |-> x.w]
        ELSE [ret |-> TRUE, ran |-> TRUE, m |-> x.m, w |-> x.w]

(* sieve_multiscript_run: ret is what it returns, ran whether the binary   *)
(* was run.                                                                *)
sieve_multiscript_run(m, w, bin, d, k, p) ==
    IF Inactive(m)
    THEN [ret |-> FALSE, ran |-> FALSE, m |-> m, w |-> w]
    ELSE
    LET r == sieve_run(bin, w.result)
        m1 == [m EXCEPT !.status = r.ret]
        w1 == World(r.result, w.delivered)
        x == IF StatusExecutes(m1.status)
             THEN LET t == TestOrExecute([m1 EXCEPT !.keep = FALSE],
                                         w1, d, k, p)
                  IN  [m |-> Deactivate(t.m), w |-> t.w]
             ELSE [m |-> m1, w |-> w1]
    IN  IF ~x.m.active \/ x.m.status <= 0
        THEN [ret |-> FALSE, ran |-> TRUE,
              m |-> [x.m EXCEPT !.active = FALSE], w |-> x.w]
        ELSE [ret |-> TRUE, ran |-> TRUE, m |-> x.m, w |-> x.w]

(* sieve_multiscript_will_discard *)
sieve_multiscript_will_discard(m, res) ==
    ~m.active /\ m.status = SIEVE_EXEC_OK /\ ~res.executed_delivery

(* sieve_multiscript_run_discard: panic tells that i_assert failed. *)
sieve_multiscript_run_discard(m, w, bin, d, k, p) ==
    IF ~sieve_multiscript_will_discard(m, w.result)
    THEN [panic |-> FALSE, ran |-> FALSE, m |-> m, w |-> w]
    ELSE IF m.discard_handled
    THEN [panic |-> TRUE, ran |-> FALSE, m |-> m, w |-> w]
    ELSE
    LET res0 == sieve_result_set_keep_action(w.result, "store")
        r == sieve_run(bin, res0)
        m1 == [m EXCEPT !.status = r.ret]
        w1 == World(r.result, w.delivered)
        x == IF StatusExecutes(m1.status)
             THEN LET t == TestOrExecute([m1 EXCEPT !.keep = FALSE],
                                         w1, d, k, p)
                  IN  [m |-> [t.m EXCEPT
                                !.status =
                                    IF @ = SIEVE_EXEC_FAILURE
                                    THEN SIEVE_EXEC_KEEP_FAILED ELSE @,
                                !.active = FALSE],
                       w |-> t.w]
             ELSE [m |-> m1, w |-> w1]
    IN  [panic |-> FALSE, ran |-> TRUE,
         m |-> [x.m EXCEPT !.discard_handled = TRUE], w |-> x.w]

(* sieve_multiscript_tempfail: what the fallback to implicit keep returns *)
TempfailFallbackLax(ikret) ==
    IF ikret = SIEVE_EXEC_OK THEN SIEVE_EXEC_FAILURE
    ELSE SIEVE_EXEC_TEMP_FAILURE
TempfailFallback(ikret) ==
    IF ikret = SIEVE_EXEC_OK THEN SIEVE_EXEC_FAILURE
    ELSE SIEVE_EXEC_KEEP_FAILED

(* sieve_multiscript_tempfail: kept tells whether an implicit keep was     *)
(* attempted.                                                              *)
sieve_multiscript_tempfail(m, w, k) ==
    LET w0 == World(sieve_result_set_keep_action(w.result, "store"),
                    w.delivered)
    IN  IF m.active
        THEN IF ~m.teststream /\ w0.result.executed
             THEN LET ik == sieve_result_implicit_keep(w0, FALSE, k)
                  IN  [ret |-> TempfailFallback(ik.ret),
                       kept |-> TRUE, m |-> m, w |-> ik.w]
             ELSE [ret |-> SIEVE_EXEC_TEMP_FAILURE, kept |-> FALSE,
                   m |-> m, w |-> w0]
        ELSE [ret |-> m.status, kept |-> FALSE, m |-> m, w |-> w0]

(* sieve_multiscript_finish: success is what sieve_result_finish is told.  *)
sieve_multiscript_finish_temp(m, w, k) ==
    LET w0 == World(sieve_result_set_keep_action(w.result, "store"),
                    w.delivered)
        x == IF m.active
             THEN IF m.teststream
                  THEN [ret |-> m.status, kept |-> FALSE,
                        m |-> [m EXCEPT !.keep = TRUE], w |-> w0]
                  ELSE LET ik == sieve_result_implicit_keep(w0, TRUE, k)
                       IN  IF ik.ret = SIEVE_EXEC_OK
                           THEN [ret |-> m.status, kept |-> TRUE,
                                 m |-> [m EXCEPT !.keep = TRUE], w |-> ik.w]
                           ELSE IF ik.ret = SIEVE_EXEC_TEMP_FAILURE
                           THEN [ret |-> SIEVE_EXEC_TEMP_FAILURE,
                                 kept |-> TRUE, m |-> m, w |-> ik.w]
                           ELSE [ret |-> SIEVE_EXEC_KEEP_FAILED,
                                 kept |-> TRUE, m |-> m, w |-> ik.w]
             ELSE [ret |-> m.status, kept |-> FALSE, m |-> m, w |-> w0]
    IN  [ret |-> x.ret, kept |-> x.kept, m |-> x.m, w |-> x.w,
         success |-> (x.ret = SIEVE_EXEC_OK)]
sieve_multiscript_finish(m, w, k) ==
    LET w0 == World(sieve_result_set_keep_action(w.result, "store"),
                    w.delivered)
        x == IF m.active
             THEN IF m.teststream
                  THEN [ret |-> m.status, kept |-> FALSE,
                        m |-> [m EXCEPT !.keep = TRUE], w |-> w0]
                  ELSE LET ik == sieve_result_implicit_keep(w0, TRUE, k)
                       IN  IF ik.ret = SIEVE_EXEC_OK
                           THEN [ret |-> m.status, kept |-> TRUE,
                                 m |-> [m EXCEPT !.keep = TRUE], w |-> ik.w]
                           ELSE IF ik.ret = SIEVE_EXEC_TEMP_FAILURE
                                   /\ ~ik.w.result.executed
                           THEN [ret |-> SIEVE_EXEC_TEMP_FAILURE,
                                 kept |-> TRUE, m |-> m, w |-> ik.w]
                           ELSE [ret |-> SIEVE_EXEC_KEEP_FAILED,
                                 kept |-> TRUE, m |-> m, w |-> ik.w]
             ELSE [ret |-> m.status, kept |-> FALSE, m |-> m, w |-> w0]
    IN  [ret |-> x.ret, kept |-> x.kept, m |-> x.m, w |-> x.w,
         success |-> (x.ret = SIEVE_EXEC_OK)]

-----------------------------------------------------------------------------
(* The session as a state machine.                                         *)

NoMscript == [status |-> SIEVE_EXEC_OK, keep |-> FALSE, active |-> FALSE,
              discard_handled |-> FALSE, teststream |-> FALSE]

(* A logged call: bin is the binary it ran (NoBin when it ran none). *)
Call(op, bin, ran) ==
    [op |-> op, bin |-> IF ran THEN bin ELSE NoBin, ran |-> ran]

(* What the last call returned: retb for the bool of sieve_multiscript_run,*)
(* reti for a status; kept: an implicit keep was attempted by              *)
(* tempfail/finish; success: what sieve_result_finish was told.            *)
Last(op, retb, reti, kept, success) ==
    [op |-> op, retb |-> retb, reti |-> reti, kept |-> kept,
     success |-> success]

InitExec ==
    /\ phase = "none"
    /\ mscript = NoMscript
    /\ result = sieve_result_create
    /\ delivered = <<>>
    /\ calls = <<>>
    /\ last = Last("none", FALSE, 0, FALSE, FALSE)

ExecuteCall(bin, d, k) ==
    /\ phase = "none"
    /\ LET x == sieve_execute(bin, d, k)
       IN  /\ result' = x.w.result
           /\ delivered' = x.w.delivered
           /\ last' = Last("execute", FALSE, x.ret, FALSE, FALSE)
    /\ calls' = Append(calls, Call("execute", bin, TRUE))
    /\ phase' = "done"
    /\ UNCHANGED mscript

TestCall(bin, p) ==
    /\ phase = "none"
    /\ LET x == sieve_test(bin, p)
       IN  /\ result' = x.w.result
           /\ delivered' = x.w.delivered
           /\ last' = Last("test", FALSE, x.ret, FALSE, FALSE)
    /\ calls' = Append(calls, Call("test", bin, TRUE))
    /\ phase' = "done"
    /\ UNCHANGED mscript

StartCall(test) ==
    /\ phase = "none"
    /\ LET x == sieve_multiscript_start(test)
       IN  /\ mscript' = x.m
           /\ result' = x.result
    /\ phase' = "ms"
    /\ last' = Last("start", FALSE, 0, FALSE, FALSE)
    /\ UNCHANGED <<delivered, calls>>

RunCall(bin, d, k, p) ==
    /\ phase = "ms"
    /\ Len(calls) < MaxCalls
    /\ LET x == sieve_multiscript_run(mscript, World(result, delivered),
                                      bin, d, k, p)
       IN  /\ mscript' = x.m
           /\ result' = x.w.result
           /\ delivered' = x.w.delivered
           /\ calls' = Append(calls, Call("run", bin, x.ran))
           /\ last' = Last("run", x.ret, 0, FALSE, FALSE)
    /\ UNCHANGED phase

RunDiscardCall(bin, d, k, p) ==
    /\ phase = "ms"
    /\ Len(calls) < MaxCalls
    /\ LET x == sieve_multiscript_run_discard(mscript,
                    World(result, delivered), bin, d, k, p)
       IN  /\ mscript' = x.m
           /\ result' = x.w.result
           /\ delivered' = x.w.delivered
           /\ calls' = Append(calls, Call("run_discard", bin, x.ran))
           /\ phase' = IF x.panic THEN "panic" ELSE phase
    /\ last' = Last("run_discard", FALSE, 0, FALSE, FALSE)

TempfailCall(k) ==
    /\ phase = "ms"
    /\ Len(calls) < MaxCalls
    /\ LET x == sieve_multiscript_tempfail(mscript,
                    World(result, delivered), k)
       IN  /\ mscript' = x.m
           /\ result' = x.w.result
           /\ delivered' = x.w.delivered
           /\ last' = Last("tempfail", FALSE, x.ret, x.kept, FALSE)
    /\ calls' = Append(calls, Call("tempfail", NoBin, FALSE))
    /\ phase' = "done"

FinishCall(k) ==
    /\ phase = "ms"
    /\ Len(calls) < MaxCalls
    /\ LET x == sieve_multiscript_finish(mscript,
                    World(result, delivered), k)
       IN  /\ mscript' = x.m
           /\ result' = x.w.result
           /\ delivered' = x.w.delivered
           /\ last' = Last("finish", FALSE, x.ret, x.kept, x.success)
    /\ calls' = Append(calls, Call("finish", NoBin, FALSE))
    /\ phase' = "done"

(* The inputs a call can consult: the collaborator's answers d, k outside  *)
(* test mode, the stream's answer p in test mode; the others are fixed.    *)
Consulted(d, k, p) ==
    IF mscript.teststream THEN d = "ok" /\ k = "ok" ELSE p = TRUE

NextExec ==
    \/ \E bin \in Binaries, d \in Outcomes, k \in Outcomes :
          ExecuteCall(bin, d, k)
    \/ \E bin \in Binaries, p \in BOOLEAN : TestCall(bin, p)
    \/ \E test \in BOOLEAN : StartCall(test)
    \/ \E bin \in Binaries, d \in Outcomes, k \in Outcomes, p \in BOOLEAN :
          Consulted(d, k, p) /\ RunCall(bin, d, k, p)
    \/ \E bin \in Binaries, d \in Outcomes, k \in Outcomes, p \in BOOLEAN :
          Consulted(d, k, p) /\ RunDiscardCall(bin, d, k, p)
    \/ \E k \in Outcomes : TempfailCall(k)
    \/ \E k \in Outcomes : FinishCall(k)

-----------------------------------------------------------------------------
(* sieve-extensions.c: the extension registry.                             *)
(* A string is a sequence of characters.                                   *)

(* The extension objects: the preloaded trio, the two dummy extensions     *)
(* without id slot, the core extensions and the native plugins, the        *)
(* deprecated imapflags object, which carries the name of imap4flags, and  *)
(* two extensions that sieve_extensions_init does not register: a plugin,  *)
(* and one whose load hook fails.                                          *)
ExtObjs == {"comparator", "match_type", "address_part",
            "octet", "ascii_casemap",
            "fileinto", "reject", "envelope", "encoded_character",
            "vacation", "subaddress", "ascii_numeric", "relational",
            "regex", "imap4flags", "copy", "include", "body", "variables",
            "enotify",
            "imapflags", "plugin", "broken"}

NULL == "NULL"

(* extension->name *)
ExtName(o) ==
    CASE o = "comparator" -> <<"@", "c">>
      [] o = "match_type" -> <<"@", "m">>
      [] o = "address_part" -> <<"@", "a">>
      [] o = "octet" -> <<"o">>
      [] o = "ascii_casemap" -> <<"a", "c">>
      [] o = "fileinto" -> <<"f">>
      [] o = "reject" -> <<"r">>
      [] o = "envelope" -> <<"e", "n">>
      [] o = "encoded_character" -> <<"e", "c">>
      [] o = "vacation" -> <<"v", "a">>
      [] o = "subaddress" -> <<"s", "u">>
      [] o = "ascii_numeric" -> <<"a", "n">>
      [] o = "relational" -> <<"r", "e">>
      [] o = "regex" -> <<"r", "g">>
      [] o = "imap4flags" -> <<"i">>
      [] o = "copy" -> <<"c", "o">>
      [] o = "include" -> <<"i", "n">>
      [] o = "body" -> <<"b", "o">>
      [] o = "variables" -> <<"v", "r">>
      [] o = "enotify" -> <<"e", "t">>
      [] o = "imapflags" -> <<"i">>
      [] o = "plugin" -> <<"p">>
      [] o = "broken" -> <<"b">>

(* extension->_id != NULL *)
HasIdSlot(o) == o \notin {"octet", "ascii_casemap"}

(* extension->load == NULL || extension->load() *)
LoadOk(o) == o # "broken"

(* ext->unload != NULL *)
HasUnload(o) == o = "plugin"

(* sieve_core_extensions with the preloaded extensions behind fileinto *)
sieve_core_extensions_late ==
    <<"fileinto", "comparator", "match_type", "address_part",
      "octet", "ascii_casemap",
      "reject", "envelope", "encoded_character",
      "vacation", "subaddress", "ascii_numeric", "relational", "regex",
      "imap4flags", "copy", "include", "body", "variables", "enotify">>

(* sieve_core_extensions followed by sieve_depricated_extensions *)
sieve_core_extensions ==
    <<"comparator", "match_type", "address_part",
      "octet", "ascii_casemap",
      "fileinto", "reject", "envelope", "encoded_character",
      "vacation", "subaddress", "ascii_numeric", "relational", "regex",
      "imap4flags", "copy", "include", "body", "variables", "enotify">>
sieve_depricated_extensions == <<"imapflags">>

(* sieve_extensions_init_registry: no registration; every id slot holds -1 *)
(* and no load or unload hook has been called.                             *)
sieve_extensions_init_registry ==
    [ exts |-> <<>>,
      ids |-> [o \in ExtObjs |-> -1],
      loads |-> [o \in ExtObjs |-> 0],
      unloads |-> [o \in ExtObjs |-> 0] ]

(* hash_table_lookup(extension_index, name): the index of the registration *)
(* inserted under name, 0 when there is none.                              *)
Lookup(R, name) ==
    IF \E i \in 1..Len(R.exts) : R.exts[i].key = name
    THEN CHOOSE i \in 1..Len(R.exts) : R.exts[i].key = name
    ELSE 0

(* SIEVE_EXT_ENABLED: the macro reads o->_id, so its user crashes when the  *)
(* registration has no extension (NoHandler).                              *)
SIEVE_EXT_ENABLED(R, o) == o # NULL /\ HasIdSlot(o) /\ R.ids[o] >= 0

(* _sieve_extension_load: the load hook is called *)
_sieve_extension_load(R, o) ==
    [ok |-> LoadOk(o), R |-> [R EXCEPT !.loads[o] = @ + 1]]

(* _sieve_extension_register that gives a registration the extension      *)
(* object it was called with also when the registration has one.           *)
_sieve_extension_register_last(R, o, load) ==
    LET found == Lookup(R, ExtName(o))
        R1 == IF found = 0
              THEN [R EXCEPT !.exts = Append(@,
                        [key |-> ExtName(o), extension |-> NULL,
                         id |-> Len(R.exts), required |-> FALSE,
                         loaded |-> FALSE])]
              ELSE R
        e == IF found = 0 THEN Len(R1.exts) ELSE found
        ereg == R1.exts[e]
    IN  IF ereg.extension = NULL
        THEN IF HasIdSlot(o) /\ load
             THEN LET R2 == [R1 EXCEPT !.ids[o] = ereg.id]
                      l == IF ~ereg.loaded THEN _sieve_extension_load(R2, o)
                           ELSE [ok |-> TRUE, R |-> R2]
                  IN  IF ~l.ok
                      THEN [ereg |-> 0, R |-> l.R]
                      ELSE [ereg |-> e,
                            R |-> [l.R EXCEPT !.exts[e].loaded = TRUE,
                                              !.exts[e].extension = o]]
             ELSE [ereg |-> e, R |-> [R1 EXCEPT !.exts[e].extension = o]]
        ELSE [ereg |-> e, R |-> [R1 EXCEPT !.exts[e].extension = o]]

(* _sieve_extension_register: ereg is the index of the registration        *)
(* returned, 0 for NULL.                                                   *)
_sieve_extension_register(R, o, load) ==
    LET found == Lookup(R, ExtName(o))
        R1 == IF found = 0
              THEN [R EXCEPT !.exts = Append(@,
                        [key |-> ExtName(o), extension |-> NULL,
                         id |-> Len(R.exts), required |-> FALSE,
                         loaded |-> FALSE])]
              ELSE R
        e == IF found = 0 THEN Len(R1.exts) ELSE found
        ereg == R1.exts[e]
    IN  IF ereg.extension = NULL
        THEN IF HasIdSlot(o) /\ load
             THEN LET R2 == [R1 EXCEPT !.ids[o] = ereg.id]
                      l == IF ~ereg.loaded THEN _sieve_extension_load(R2, o)
                           ELSE [ok |-> TRUE, R |-> R2]
                  IN  IF ~l.ok
                      THEN [ereg |-> 0, R |-> l.R]
                      ELSE [ereg |-> e,
                            R |-> [l.R EXCEPT !.exts[e].loaded = TRUE,
                                              !.exts[e].extension = o]]
             ELSE [ereg |-> e, R |-> [R1 EXCEPT !.exts[e].extension = o]]
        ELSE [ereg |-> e, R |-> R1]

(* sieve_extension_register: the id, -1 on failure *)
sieve_extension_register(R, o, load) ==
    LET x == _sieve_extension_register(R, o, load)
    IN  [ret |-> IF x.ereg = 0 THEN -1 ELSE x.R.exts[x.ereg].id, R |-> x.R]

(* sieve_extension_require *)
sieve_extension_require(R, o) ==
    LET x == _sieve_extension_register(R, o, TRUE)
    IN  IF x.ereg = 0 THEN [ret |-> -1, R |-> x.R]
        ELSE [ret |-> x.R.exts[x.ereg].id,
              R |-> [x.R EXCEPT !.exts[x.ereg].required = TRUE]]

RECURSIVE RegisterAll(_, _)
(* The loops of sieve_extensions_init: each extension is registered in the *)
(* registry the registration before it left (r, computed once).            *)
RegisterAll(R, objs) ==
    IF objs = <<>> THEN R
    ELSE CHOOSE x \in
            { RegisterAll(r, Tail(objs)) :
                r \in {sieve_extension_register(R, Head(objs), TRUE).R} } :
            TRUE

(* sieve_extensions_init *)
sieve_extensions_init ==
    RegisterAll(RegisterAll(sieve_extensions_init_registry,
                            sieve_core_extensions),
                sieve_depricated_extensions)

(* sieve_extension_get_by_name without the test that it is enabled *)
sieve_extension_get_by_name_any(R, name) ==
    IF name # <<>> /\ name[1] = "@" THEN NULL
    ELSE IF Lookup(R, name) = 0 THEN NULL
    ELSE R.exts[Lookup(R, name)].extension

(* What a lookup yields when it dereferences the NULL extension of a       *)
(* registration: the process ends with SIGSEGV.                            *)
Segfault == "SIGSEGV"

(* sieve_extension_get_by_name: SIEVE_EXT_ENABLED reads                    *)
(* ereg->extension->_id of the registration found.                         *)
sieve_extension_get_by_name(R, name) ==
    IF name # <<>> /\ name[1] = "@" THEN NULL
    ELSE CHOOSE ext \in
            { IF ereg = 0 THEN NULL
              ELSE IF R.exts[ereg].extension = NULL THEN Segfault
              ELSE IF ~SIEVE_EXT_ENABLED(R, R.exts[ereg].extension)
              THEN NULL
              ELSE R.exts[ereg].extension :
                ereg \in {Lookup(R, name)} } : TRUE

(* sieve_extension_enable *)
sieve_extension_enable(R, e) ==
    LET o == R.exts[e].extension
        R1 == IF HasIdSlot(o)
              THEN LET R2 == [R EXCEPT !.ids[o] = R.exts[e].id]
                   IN  IF ~R.exts[e].loaded
                       THEN _sieve_extension_load(R2, o).R ELSE R2
              ELSE R
    IN  [R1 EXCEPT !.exts[e].loaded = TRUE]

(* sieve_extension_disable that publishes 0 for a disabled extension *)
sieve_extension_disable_zero(R, e) ==
    LET o == R.exts[e].extension
    IN  IF HasIdSlot(o) THEN [R EXCEPT !.ids[o] = 0] ELSE R

(* sieve_extension_disable *)
sieve_extension_disable(R, e) ==
    LET o == R.exts[e].extension
    IN  IF HasIdSlot(o) THEN [R EXCEPT !.ids[o] = -1] ELSE R

(* strchr(bp, ' '): the index of the first space of s at or after bp,      *)
(* 0 when there is none.                                                   *)
StrChrSpace(s, bp) ==
    IF \E i \in bp..Len(s) : s[i] = " "
    THEN CHOOSE i \in bp..Len(s) :
            s[i] = " " /\ \A j \in bp..(i - 1) : s[j] # " "
    ELSE 0

RECURSIVE SplitNames(_, _)
(* The do-while loop of sieve_extensions_set_string from position bp: the  *)
(* names it looks up, in order, and whether it loops for ever (it does     *)
(* when no space is left and bp is at the end of the string).              *)
SplitNames(s, bp) ==
    LET ep == StrChrSpace(s, bp)
    IN  IF ep = 0
        THEN IF bp > Len(s)
             THEN [names |-> <<>>, hangs |-> TRUE]
             ELSE [names |-> <<SubSeq(s, bp, Len(s))>>, hangs |-> FALSE]
        ELSE LET rest == SplitNames(s, ep + 1)
             IN  [names |-> IF ep > bp
                            THEN <<SubSeq(s, bp, ep - 1)>> \o rest.names
                            ELSE rest.names,
                  hangs |-> rest.hangs]

(* The registrations the names select, were a sign before a name dropped.  *)
EnabledEregs_signed(R, names) ==
    { Lookup(R, names[j]) : j \in {j \in 1..Len(names) :
                                     /\ names[j][1] # "@"
                                     /\ Lookup(R, names[j]) # 0} }
    \cup { Lookup(R, Tail(names[j])) : j \in {j \in 1..Len(names) :
                                     /\ names[j][1] \in {"+", "-"}
                                     /\ Lookup(R, Tail(names[j])) # 0} }
(* The registrations the names select: hidden and unknown names are        *)
(* ignored.                                                                *)
EnabledEregs(R, names) ==
    { Lookup(R, names[j]) : j \in {j \in 1..Len(names) :
                                     /\ names[j][1] # "@"
                                     /\ Lookup(R, names[j]) # 0} }

RECURSIVE SetStatus(_, _, _)
(* The loop of sieve_extensions_set_string that sets the new status, from  *)
(* registration i on: the registry it leaves and whether it crashes. It    *)
(* reads eregs[i].extension->_id of every registration in array order, so  *)
(* it dereferences NULL at the first registration without extension, with  *)
(* the registrations before it done.                                       *)
SetStatus(R, ena, i) ==
    IF i > Len(R.exts) THEN [crashes |-> FALSE, R |-> R]
    ELSE IF R.exts[i].extension = NULL THEN [crashes |-> TRUE, R |-> R]
    ELSE LET o == R.exts[i].extension
             R1 == IF HasIdSlot(o) /\ ExtName(o)[1] # "@"
                   THEN IF i \notin ena /\ ~R.exts[i].required
                        THEN sieve_extension_disable(R, i)
                        ELSE sieve_extension_enable(R, i)
                   ELSE R
         IN  CHOOSE x \in { SetStatus(r, ena, i + 1) : r \in {R1} } : TRUE

RECURSIVE EnableAll(_, _)
(* The loop of sieve_extensions_set_string for a NULL list, from           *)
(* registration i on: the registry it leaves and whether it crashes.       *)
(* sieve_extension_enable reads ereg->extension->_id, so the loop          *)
(* dereferences NULL at the first registration without extension, with     *)
(* the registrations before it enabled.                                    *)
EnableAll(R, i) ==
    IF i > Len(R.exts) THEN [crashes |-> FALSE, R |-> R]
    ELSE IF R.exts[i].extension = NULL THEN [crashes |-> TRUE, R |-> R]
    ELSE CHOOSE x \in
            { EnableAll(r, i + 1) : r \in {sieve_extension_enable(R, i)} } :
            TRUE

(* The NULL pointer given for a string *)
NullString == <<"NULL">>

(* A registration without extension: sieve_extensions_get_string and       *)
(* sieve_extensions_deinit_registry read the extension of every            *)
(* registration (ereg->extension->_id, ext->unload) and dereference NULL.  *)
NoHandler(R) == \E i \in 1..Len(R.exts) : R.exts[i].extension = NULL

(* sieve_extensions_set_string: a list that makes the do-while loop run   *)
(* for ever never reaches the status loop; otherwise the call leaves what  *)
(* its loop over the registrations has done, up to the end of the array    *)
(* or to the registration at which it crashes.                             *)
sieve_extensions_set_string(R, s) ==
    IF s = NullString
    THEN CHOOSE x \in
            { [hangs |-> FALSE, crashes |-> l.crashes, R |-> l.R] :
                l \in {EnableAll(R, 1)} } : TRUE
    ELSE LET sp == SplitNames(s, 1)
         IN  IF sp.hangs THEN [hangs |-> TRUE, crashes |-> FALSE, R |-> R]
             ELSE CHOOSE x \in
                    { [hangs |-> FALSE, crashes |-> l.crashes, R |-> l.R] :
                        l \in { SetStatus(R, ena, 1) :
                                  ena \in {EnabledEregs(R, sp.names)} } } :
                    TRUE

(* _list_extension without the test of the name *)
_list_extension_hidden(R, e) ==
    SIEVE_EXT_ENABLED(R, R.exts[e].extension)

(* _list_extension *)
_list_extension(R, e) ==
    /\ SIEVE_EXT_ENABLED(R, R.exts[e].extension)
    /\ ExtName(R.exts[e].extension)[1] # "@"

RECURSIVE AppendOthers(_, _, _)
(* The for loop of sieve_extensions_get_string: from registration i on,    *)
(* a space and the name of every listable extension are appended.          *)
AppendOthers(R, extstr, i) ==
    IF i > Len(R.exts) THEN extstr
    ELSE AppendOthers(R,
            IF _list_extension(R, i)
            THEN extstr \o <<" ">> \o ExtName(R.exts[i].extension)
            ELSE extstr,
            i + 1)

(* sieve_extensions_get_string *)
sieve_extensions_get_string(R) ==
    IF NoHandler(R) THEN [crashes |-> TRUE, str |-> <<>>]
    ELSE LET listable == {i \in 1..Len(R.exts) : _list_extension(R, i)}
             first == CHOOSE i \in listable : \A j \in listable : i <= j
         IN  [crashes |-> FALSE,
              str |-> IF listable = {} THEN <<>>
                      ELSE AppendOthers(R, ExtName(R.exts[first].extension),
                                        first + 1)]

(* The extensions of the registrations that have an unload hook. *)
UnloadHooks(R) ==
    { R.exts[e].extension :
        e \in { i \in 1..Len(R.exts) :
                    /\ R.exts[i].extension # NULL
                    /\ HasUnload(R.exts[i].extension) } }

(* sieve_extensions_deinit, with sieve_extensions_deinit_registry: the     *)
(* name index is iterated in the order of the hash table and the unload    *)
(* hook of each registration's extension is called; then the array and the *)
(* index are freed, the id slots are left as they are.  Reading            *)
(* ext->unload of a registration without extension ends the process;       *)
(* called are the extensions whose hooks the iteration reached before.     *)
sieve_extensions_deinit(R, called) ==
    LET unloaded == [o \in ExtObjs |->
                        IF o \in called THEN R.unloads[o] + 1
                        ELSE R.unloads[o]]
    IN  IF NoHandler(R)
        THEN [crashes |-> TRUE, R |-> [R EXCEPT !.unloads = unloaded]]
        ELSE [crashes |-> FALSE,
              R |-> [R EXCEPT !.unloads = unloaded, !.exts = <<>>]]

-----------------------------------------------------------------------------
(* Scripts, and the validator as far as the require command needs it.      *)

(* The commands the validator has registered ("foo" is not one of them).   *)
KnownCommands == {"require", "keep", "if"}

Cmd(name, argtype, args, block) ==
    [name |-> name, argtype |-> argtype, args |-> args, block |-> block]

Require(argtype, args) == Cmd("require", argtype, args, <<>>)

(* The require commands: a single string, a string list, a number.         *)
RequireCmds ==
    { Require("string", <<n>>) :
        n \in {<<"f">>, <<"r">>, <<"x">>, <<"@", "c">>} }
    \cup { Require("strlist", l) :
        l \in { <<(<<"f">>), (<<"r">>)>>, <<(<<"r">>), (<<"x">>)>>,
                <<(<<"x">>), (<<"@", "c">>)>> } }
    \cup { Require("number", <<>>) }

(* A known command, an unknown command, and a block holding a require.     *)
OtherCmds ==
    { Cmd("keep", "none", <<>>, <<>>),
      Cmd("foo", "none", <<>>, <<>>),
      Cmd("if", "none", <<>>, <<Require("string", <<"f">>)>>) }

Commands == RequireCmds \cup OtherCmds

RECURSIVE SeqsUpTo(_, _)
SeqsUpTo(S, n) ==
    IF n = 0 THEN {<<>>}
    ELSE LET shorter == SeqsUpTo(S, n - 1)
         IN  shorter \cup { Append(q, x) : q \in shorter, x \in S }

(* A script: whether it can be opened ("ok", or the error that             *)
(* sieve_parser_create reports), whether it parses, its top-level commands *)
(* and whether code generation succeeds on its AST.                        *)
MkScript(open, parses, cmds, generates) ==
    [open |-> open, parses |-> parses, cmds |-> cmds, generates |-> generates]

Scripts ==
    { MkScript("ok", TRUE, c, g) :
        c \in SeqsUpTo(Commands, MaxCmds), g \in BOOLEAN }
    \cup { MkScript("ok", FALSE, <<>>, FALSE),
           MkScript("NOT_FOUND", FALSE, <<>>, FALSE),
           MkScript("TEMP_FAILURE", FALSE, <<>>, FALSE) }

NoScript == MkScript("none", FALSE, <<>>, FALSE)

Diag(kind, at) == [kind |-> kind, at |-> at]

(* The command of the context of command i of a block, NULL when the       *)
(* validator made no context for it (an unknown command).                  *)
CommandContext(cmds, i) ==
    IF cmds[i].name \in KnownCommands THEN cmds[i].name ELSE NULL

(* sieve_command_is_first *)
sieve_command_is_first(cmds, i) == i = 1

(* sieve_command_prev_context *)
sieve_command_prev_context(cmds, i) ==
    IF i = 1 THEN NULL ELSE CommandContext(cmds, i - 1)

(* sieve_validator_extension_load that, besides, marks the extension as    *)
(* required in the registry, as sieve_extension_require does.              *)
sieve_validator_extension_load_require(R, at, name) ==
    CHOOSE l \in
        { [ext |-> ext,
           diags |-> IF ext = NULL THEN <<Diag("unknown-extension", at)>>
                     ELSE <<>>,
           crashes |-> ext = Segfault,
           R |-> IF ext \in {NULL, Segfault} THEN R
                 ELSE [R EXCEPT !.exts[Lookup(R, name)].required = TRUE]] :
            ext \in {sieve_extension_get_by_name(R, name)} } : TRUE

(* sieve_validator_extension_load: the extension is looked up by name and  *)
(* marked in the validator of the compilation; R is the registry the call  *)
(* leaves.                                                                 *)
sieve_validator_extension_load(R, at, name) ==
    CHOOSE l \in
        { [ext |-> ext,
           diags |-> IF ext = NULL THEN <<Diag("unknown-extension", at)>>
                     ELSE <<>>,
           crashes |-> ext = Segfault,
           R |-> R] :
            ext \in {sieve_extension_get_by_name(R, name)} } : TRUE

RECURSIVE LoadItems_stop(_, _, _)
(* The while loop of cmd_require_validate, left at the first item that     *)
(* fails to load.                                                          *)
LoadItems_stop(R, at, items) ==
    IF items = <<>>
    THEN [result |-> TRUE, diags |-> <<>>, crashes |-> FALSE, R |-> R]
    ELSE CHOOSE out \in
            { IF l.crashes
              THEN [result |-> FALSE, diags |-> <<>>, crashes |-> TRUE,
                    R |-> l.R]
              ELSE IF l.ext = NULL
              THEN [result |-> FALSE, diags |-> l.diags, crashes |-> FALSE,
                    R |-> l.R]
              ELSE CHOOSE o2 \in
                      { [result |-> rest.result,
                         diags |-> l.diags \o rest.diags,
                         crashes |-> rest.crashes, R |-> rest.R] :
                          rest \in {LoadItems_stop(l.R, at, Tail(items))} } :
                      TRUE :
                l \in {sieve_validator_extension_load(R, at, Head(items))} } :
            TRUE

RECURSIVE LoadItems(_, _, _)
(* The while loop of cmd_require_validate over the items of a string list: *)
(* each item is loaded in the registry the item before it left.            *)
LoadItems(R, at, items) ==
    IF items = <<>>
    THEN [result |-> TRUE, diags |-> <<>>, crashes |-> FALSE, R |-> R]
    ELSE CHOOSE out \in
            { IF l.crashes
              THEN [result |-> FALSE, diags |-> <<>>, crashes |-> TRUE,
                    R |-> l.R]
              ELSE CHOOSE o2 \in
                      { [result |-> l.ext # NULL /\ rest.result,
                         diags |-> l.diags \o rest.diags,
                         crashes |-> rest.crashes, R |-> rest.R] :
                          rest \in {LoadItems(l.R, at, Tail(items))} } :
                      TRUE :
                l \in {sieve_validator_extension_load(R, at, Head(items))} } :
            TRUE

(* The placement test of cmd_require_validate, without the test of the     *)
(* preceding command.                                                      *)
RequirePlacedToplevel(toplevel, is_first, prev_context) == toplevel

(* The placement test of cmd_require_validate                              *)
RequirePlaced(toplevel, is_first, prev_context) ==
    ~ ( ~toplevel
        \/ (~is_first /\ prev_context # NULL /\ prev_context # "require") )

(* cmd_require_validate *)
cmd_require_validate(R, cmd, at, toplevel, is_first, prev_context) ==
    IF ~RequirePlaced(toplevel, is_first, prev_context)
    THEN [result |-> FALSE, diags |-> <<Diag("require-placement", at)>>,
          crashes |-> FALSE, R |-> R]
    ELSE IF cmd.argtype = "string"
    THEN CHOOSE out \in
            { [result |-> l.ext # NULL /\ ~l.crashes, diags |-> l.diags,
               crashes |-> l.crashes, R |-> l.R] :
                l \in {sieve_validator_extension_load(R, at, cmd.args[1])} } :
            TRUE
    ELSE IF cmd.argtype = "strlist"
    THEN LoadItems(R, at, cmd.args)
    ELSE [result |-> FALSE, diags |-> <<Diag("require-argument", at)>>,
          crashes |-> FALSE, R |-> R]

RECURSIVE ValidateBlock(_, _, _, _, _)
(* The validator's walk over the commands of a block from command i on:    *)
(* an unknown command is an error and gets no context, a known command is  *)
(* given to its validate hook, and the walk goes on after an error, in the *)
(* registry the command left.                                              *)
ValidateBlock(R, cmds, path, i, toplevel) ==
    IF i > Len(cmds)
    THEN [result |-> TRUE, diags |-> <<>>, crashes |-> FALSE, R |-> R]
    ELSE LET cmd == cmds[i]
             at == Append(path, i)
         IN  CHOOSE out \in
                { IF this.crashes THEN this
                  ELSE CHOOSE o2 \in
                          { [result |-> this.result /\ rest.result,
                             diags |-> this.diags \o rest.diags,
                             crashes |-> rest.crashes, R |-> rest.R] :
                              rest \in
                                { ValidateBlock(this.R, cmds, path, i + 1,
                                                toplevel) } } : TRUE :
                    this \in
                      { IF cmd.name \notin KnownCommands
                        THEN [result |-> FALSE,
                              diags |-> <<Diag("unknown-command", at)>>,
                              crashes |-> FALSE, R |-> R]
                        ELSE IF cmd.name = "require"
                        THEN cmd_require_validate(R, cmd, at, toplevel,
                                sieve_command_is_first(cmds, i),
                                sieve_command_prev_context(cmds, i))
                        ELSE ValidateBlock(R, cmd.block, at, 1, FALSE) } } :
                TRUE

(* sieve_validator_run *)
sieve_validator_run(R, ast) == ValidateBlock(R, ast, <<>>, 1, TRUE)

-----------------------------------------------------------------------------
(* sieve.c: the compiler.  An AST is the command list of the script; refs  *)
(* counts the references held on it.                                       *)

(* sieve_parse: the parser holds the first reference on the AST it makes   *)
(* and drops it in sieve_parser_free; null tells that NULL is returned.    *)
sieve_parse(script) ==
    IF script.open # "ok"
    THEN [null |-> TRUE, ast |-> <<>>, refs |-> 0, error |-> script.open]
    ELSE IF ~script.parses
    THEN [null |-> TRUE, ast |-> <<>>, refs |-> 1 - 1,
          error |-> "NOT_VALID"]
    ELSE [null |-> FALSE, ast |-> script.cmds, refs |-> 1 + 1 - 1,
          error |-> "NONE"]

(* sieve_validate that takes the validator's run for a success *)
sieve_validate_lax(R, ast) ==
    CHOOSE out \in
        { [result |-> TRUE, error |-> "NONE", diags |-> v.diags,
           crashes |-> v.crashes, R |-> v.R] :
            v \in {sieve_validator_run(R, ast)} } : TRUE

(* sieve_validate *)
sieve_validate(R, ast) ==
    CHOOSE out \in
        { [result |-> v.result,
           error |-> IF ~v.result THEN "NOT_VALID" ELSE "NONE",
           diags |-> v.diags, crashes |-> v.crashes, R |-> v.R] :
            v \in {sieve_validator_run(R, ast)} } : TRUE

(* sieve_generate *)
sieve_generate(script) ==
    [sbin |-> script.generates,
     error |-> IF ~script.generates THEN "NOT_VALID" ELSE "NONE"]

(* sieve_compile_script: has_error_r tells whether the caller passed       *)
(* error_r.  The outcome records the stages run, the messages given to the *)
(* error handler and the references left on the AST; R is the registry the *)
(* call leaves.                                                            *)
sieve_compile_script(R, script, has_error_r) ==
    LET p == sieve_parse(script)
        g == sieve_generate(script)
        Out(sbin, error, stages, refs, diags, msgs, crashes, R1) ==
            [done |-> TRUE, script |-> script, has_error_r |-> has_error_r,
             sbin |-> sbin, error |-> error, stages |-> stages,
             ast_refs |-> refs, diags |-> diags, msgs |-> msgs,
             crashes |-> crashes, R |-> R1]
    IN  IF p.null
        THEN Out(FALSE, p.error, <<"parse">>, p.refs, <<>>,
                 IF p.error = "NOT_FOUND"
                 THEN IF ~has_error_r THEN <<"script not found">> ELSE <<>>
                 ELSE <<"parse failed">>, FALSE, R)
        ELSE CHOOSE out \in
                { IF ~v.result
                  THEN Out(FALSE, v.error, <<"parse", "validate">>,
                           p.refs - 1, v.diags, <<"validation failed">>,
                           v.crashes, v.R)
                  ELSE IF ~g.sbin
                  THEN Out(FALSE, g.error,
                           <<"parse", "validate", "generate">>, p.refs - 1,
                           v.diags, <<"code generation failed">>, FALSE, v.R)
                  ELSE Out(TRUE, g.error,
                           <<"parse", "validate", "generate">>, p.refs - 1,
                           v.diags, <<>>, FALSE, v.R) :
                    v \in {sieve_validate(R, p.ast)} } : TRUE

NoComp ==
    [done |-> FALSE, script |-> NoScript, has_error_r |-> FALSE,
     sbin |-> FALSE, error |-> "NONE", stages |-> <<>>,
     ast_refs |-> 0, diags |-> <<>>, msgs |-> <<>>, crashes |-> FALSE]

-----------------------------------------------------------------------------
(* The registry and the compiler as a state machine.                       *)

Alphabet == {"f", "r", "i", "x", " ", "@"}

(* The strings given to sieve_extensions_set_string *)
ExtStrings == SeqsUpTo(Alphabet, MaxStrLen) \cup {NullString}

InitComp ==
    /\ reg = sieve_extensions_init
    /\ ext_state = "up"
    /\ comp = NoComp

(* sieve_extensions_set_string(s) *)
SetStringCall(s) ==
    /\ ext_state = "up"
    /\ ~comp.done
    /\ LET r == sieve_extensions_set_string(reg, s)
       IN  /\ reg' = r.R
           /\ ext_state' = IF r.hangs THEN "hung"
                           ELSE IF r.crashes THEN "crashed" ELSE "up"
    /\ UNCHANGED comp

(* sieve_compile_script(script, ehandler, flags, error_r): the call does   *)
(* not return when the validator's lookup of a required name meets a       *)
(* registration without extension.  The registry is left as the functions  *)
(* that the compilation calls leave it.                                    *)
CompileCall(script, has_error_r) ==
    /\ ext_state = "up"
    /\ ~comp.done
    /\ \E c \in {sieve_compile_script(reg, script, has_error_r)} :
          /\ comp' = IF c.crashes THEN comp
                     ELSE [f \in DOMAIN NoComp |-> c[f]]
          /\ ext_state' = IF c.crashes THEN "crashed" ELSE "up"
          /\ reg' = c.R

(* The caller is done with the outcome of the compilation. *)
CloseCall ==
    /\ comp.done
    /\ comp' = NoComp
    /\ UNCHANGED <<reg, ext_state>>

(* sieve_extension_register(extension, load) *)
RegisterCall(o, load) ==
    /\ ext_state = "up"
    /\ ~comp.done
    /\ reg.loads[o] < MaxLoads
    /\ reg' = sieve_extension_register(reg, o, load).R
    /\ UNCHANGED <<ext_state, comp>>

(* sieve_extension_require(extension) *)
RequireCall(o) ==
    /\ ext_state = "up"
    /\ ~comp.done
    /\ reg.loads[o] < MaxLoads
    /\ reg' = sieve_extension_require(reg, o).R
    /\ UNCHANGED <<ext_state, comp>>

(* sieve_extensions_deinit(), also reached from sieve_deinit: every hook   *)
(* is called when the iteration meets no registration without extension,   *)
(* any of them otherwise.  Afterwards the registry is gone.                *)
DeinitCall ==
    /\ ext_state = "up"
    /\ ~comp.done
    /\ \E called \in SUBSET UnloadHooks(reg) :
          /\ ~NoHandler(reg) => called = UnloadHooks(reg)
          /\ LET d == sieve_extensions_deinit(reg, called)
             IN  /\ reg' = d.R
                 /\ ext_state' = IF d.crashes THEN "crashed" ELSE "down"
    /\ UNCHANGED comp

(* The registry exists: sieve_extensions_deinit has not freed it. *)
RegistryLive == ext_state # "down"

RECURSIVE JoinNames(_)
(* The names of a list, separated by single spaces. *)
JoinNames(names) ==
    IF names = <<>> THEN <<>>
    ELSE IF Len(names) = 1 THEN names[1]
    ELSE names[1] \o <<" ">> \o JoinNames(Tail(names))

(* Names of registered, unregistered, unknown and hidden extensions, and   *)
(* names written with a sign.                                              *)
ListNames ==
    <<(<<"+", "f">>), <<"f">>, <<"p">>, <<"b">>, <<"x">>, <<"@", "c">>,
      <<"-", "r">>>>

(* The lists given to sieve_extensions_set_string: NULL, the empty string  *)
(* and the lists of up to MaxNames of the names, each at most once and in  *)
(* the order above.                                                        *)
ExtLists ==
    {NullString} \cup
    { JoinNames([i \in 1..Len(q) |-> ListNames[q[i]]]) :
        q \in { q \in SeqsUpTo(1..Len(ListNames), MaxNames) :
                    \A i \in 1..(Len(q) - 1) : q[i] < q[i + 1] } }

(* The extensions that plugins register and that load hooks require. *)
RegisterObjs == {"plugin", "broken", "imapflags"}
RequireObjs == {"plugin", "broken", "reject"}

(* The scripts compiled while the registry is in use. *)
RequireScripts ==
    { MkScript("ok", TRUE, <<Require("string", <<n>>)>>, TRUE) :
        n \in {<<"r">>, <<"p">>, <<"b">>} }

NextRegistry ==
    \/ \E o \in RegisterObjs, load \in BOOLEAN : RegisterCall(o, load)
    \/ \E o \in RequireObjs : RequireCall(o)
    \/ \E s \in ExtLists : SetStringCall(s)
    \/ \E script \in RequireScripts : CompileCall(script, TRUE)
    \/ CloseCall
    \/ DeinitCall

NextComp ==
    \/ \E s \in ExtStrings : SetStringCall(s)
    \/ \E script \in Scripts, has_error_r \in BOOLEAN :
            CompileCall(script, has_error_r)
    \/ CloseCall

-----------------------------------------------------------------------------
(* Instances of one process that compile at the same time.  Each runs      *)
(* sieve_compile_script on a script of its own with a validator and an AST *)
(* of its own; what they share is the process-wide registry.  A            *)
(* compilation reaches the registry once per name of its require command,  *)
(* in sieve_validator_extension_load, and between two of these calls the   *)
(* other instance and the host application may run.  Nothing in            *)
(* sieve-extensions.c locks the registry, so a sieve_extension_require     *)
(* call of the host runs statement by statement between the steps of the   *)
(* instances.                                                              *)

Instances == {"A", "B"}

(* The scripts the instances compile: one require command with a string    *)
(* list of the names of a registered and of a not yet registered           *)
(* extension, in either order.                                             *)
ConcScripts ==
    { MkScript("ok", TRUE, <<Require("strlist", l)>>, TRUE) :
        l \in { <<(<<"r">>)>>, <<(<<"p">>)>>,
                <<(<<"r">>), (<<"p">>)>>, <<(<<"p">>), (<<"r">>)>> } }

(* The extensions the host application requires meanwhile: a registered    *)
(* one, one that is not registered, and one whose load hook fails.         *)
ConcRequireObjs == {"plugin", "reject", "broken"}

(* An instance that is not compiling. written tells whether the registry   *)
(* was written while the compilation of the instance was under way.        *)
NoThread ==
    [pc |-> "idle", script |-> NoScript, pos |-> 0, result |-> TRUE,
     diags |-> <<>>, written |-> FALSE, sbin |-> FALSE, error |-> "NONE"]

(* The host outside sieve_extension_require.  Inside a call, pc is the     *)
(* statement the call has reached, o the extension, e the index of ereg    *)
(* and R0 the registry the call began on.                                  *)
NoHost ==
    [pc |-> "idle", o |-> NULL, e |-> 0,
     R0 |-> sieve_extensions_init_registry]

IdleInst == inst = [i \in Instances |-> NoThread] /\ host = NoHost

(* The instances after a step that took the registry from R0 to R1: a      *)
(* compilation under way has seen the registry written if the two differ.  *)
Written(in, R0, R1) ==
    [i \in Instances |->
        IF in[i].pc = "require" /\ R1 # R0
        THEN [in[i] EXCEPT !.written = TRUE] ELSE in[i]]

(* Instance i calls sieve_compile_script: the script is parsed, the        *)
(* validator reaches the require command, the placement test passes and    *)
(* the loop over the string list is entered.                               *)
ThreadCompile(i, script) ==
    /\ ext_state = "up"
    /\ inst[i].pc = "idle"
    /\ ~sieve_parse(script).null
    /\ script.cmds[1].name = "require"
    /\ script.cmds[1].argtype = "strlist"
    /\ RequirePlaced(TRUE, sieve_command_is_first(script.cmds, 1),
                     sieve_command_prev_context(script.cmds, 1))
    /\ inst' = [inst EXCEPT ![i] =
                    [NoThread EXCEPT !.pc = "require", !.script = script,
                                     !.pos = 1]]
    /\ UNCHANGED <<reg, ext_state, comp, host>>

(* What a hash_table_lookup can come to that runs while the host is inside *)
(* hash_table_insert on the same table (a data race): TRUE is a lookup     *)
(* that reads the table half written, or the new node, whose registration  *)
(* has no extension yet, and ends in SIGSEGV; FALSE is a lookup that sees  *)
(* the table as it was before the insert.  Outside the insert a lookup     *)
(* reads the table as it is.                                               *)
HashRace == IF host.pc = "insert" THEN BOOLEAN ELSE {FALSE}

(* One turn of the while loop of cmd_require_validate in instance i: the   *)
(* item at pos is loaded from the registry as it is now.                   *)
ThreadLoad(i) ==
    /\ ext_state = "up"
    /\ inst[i].pc = "require"
    /\ inst[i].pos <= Len(inst[i].script.cmds[1].args)
    /\ \E l \in { sieve_validator_extension_load(reg, <<1>>,
                        inst[i].script.cmds[1].args[inst[i].pos]) },
          torn \in HashRace :
          /\ reg' = l.R
          /\ ext_state' = IF l.crashes \/ torn THEN "crashed" ELSE "up"
          /\ inst' = Written(
                [inst EXCEPT ![i] =
                    IF l.crashes \/ torn THEN @
                    ELSE [@ EXCEPT !.pos = @ + 1,
                                   !.result = @ /\ l.ext # NULL,
                                   !.diags = @ \o l.diags]],
                reg, l.R)
    /\ UNCHANGED <<comp, host>>

(* The loop of instance i is through: cmd_require_validate returns its     *)
(* result, sieve_validate maps it to the error code, the code is generated *)
(* for a valid script and sieve_compile_script returns.                    *)
ThreadReturn(i) ==
    /\ ext_state = "up"
    /\ inst[i].pc = "require"
    /\ inst[i].pos > Len(inst[i].script.cmds[1].args)
    /\ LET g == sieve_generate(inst[i].script)
       IN  inst' = [inst EXCEPT ![i] =
                [@ EXCEPT !.pc = "done",
                          !.sbin = inst[i].result /\ g.sbin,
                          !.error = IF ~inst[i].result THEN "NOT_VALID"
                                    ELSE g.error]]
    /\ UNCHANGED <<reg, ext_state, comp, host>>

(* The registry and the host after the next statement of the               *)
(* sieve_extension_require(o) call of the host, which stands at H.pc:      *)
(*   idle      hash_table_lookup; array_append_space for an extension that *)
(*             is not registered: the new registration is zeroed and not   *)
(*             in the hash table (it has no key yet)                       *)
(*   append    ereg->id = ext_id; hash_table_insert is entered             *)
(*   insert    hash_table_insert returns: lookups find the registration    *)
(*   enable    the test ereg->extension == NULL, and *(extension->_id) =   *)
(*             ereg->id for an extension with an id slot                   *)
(*   load      _sieve_extension_load calls the load hook                   *)
(*   hook      the load hook returns; on failure _sieve_extension_register *)
(*             and sieve_extension_require return                          *)
(*   loaded    ereg->loaded = TRUE                                         *)
(*   extension ereg->extension = extension                                 *)
(*   require   ereg->required = TRUE, and the call returns                 *)
HostStatement(R, H, o) ==
    LET e == H.e
    IN  CASE H.pc = "idle" ->
                LET found == Lookup(R, ExtName(o))
                IN  IF found = 0
                    THEN [R |-> [R EXCEPT !.exts = Append(@,
                                    [key |-> <<>>, extension |-> NULL,
                                     id |-> 0, required |-> FALSE,
                                     loaded |-> FALSE])],
                          H |-> [pc |-> "append", o |-> o,
                                 e |-> Len(R.exts) + 1, R0 |-> R]]
                    ELSE [R |-> R,
                          H |-> [pc |-> "enable", o |-> o, e |-> found,
                                 R0 |-> R]]
          [] H.pc = "append" ->
                [R |-> [R EXCEPT !.exts[e].id = e - 1],
                 H |-> [H EXCEPT !.pc = "insert"]]
          [] H.pc = "insert" ->
                [R |-> [R EXCEPT !.exts[e].key = ExtName(o)],
                 H |-> [H EXCEPT !.pc = "enable"]]
          [] H.pc = "enable" ->
                IF R.exts[e].extension # NULL
                THEN [R |-> R, H |-> [H EXCEPT !.pc = "require"]]
                ELSE IF HasIdSlot(o)
                THEN [R |-> [R EXCEPT !.ids[o] = R.exts[e].id],
                      H |-> [H EXCEPT !.pc = IF R.exts[e].loaded
                                             THEN "loaded" ELSE "load"]]
                ELSE [R |-> R, H |-> [H EXCEPT !.pc = "extension"]]
          [] H.pc = "load" ->
                [R |-> _sieve_extension_load(R, o).R,
                 H |-> [H EXCEPT !.pc = "hook"]]
          [] H.pc = "hook" ->
                [R |-> R,
                 H |-> IF LoadOk(o) THEN [H EXCEPT !.pc = "loaded"]
                       ELSE NoHost]
          [] H.pc = "loaded" ->
                [R |-> [R EXCEPT !.exts[e].loaded = TRUE],
                 H |-> [H EXCEPT !.pc = "extension"]]
          [] H.pc = "extension" ->
                [R |-> [R EXCEPT !.exts[e].extension = o],
                 H |-> [H EXCEPT !.pc = "require"]]
          [] H.pc = "require" ->
                [R |-> [R EXCEPT !.exts[e].required = TRUE],
                 H |-> NoHost]

(* The host application is in sieve_extension_require(o) while instances   *)
(* may be compiling: the call, or the next statement of the call that is   *)
(* under way.                                                              *)
HostRequire(o) ==
    /\ ext_state = "up"
    /\ IF host.pc = "idle" THEN reg.loads[o] < MaxLoads ELSE host.o = o
    /\ \E s \in {HostStatement(reg, host, o)} :
          /\ reg' = s.R
          /\ host' = s.H
          /\ inst' = Written(inst, reg, s.R)
    /\ UNCHANGED <<ext_state, comp>>

NextConcurrent ==
    \/ \E o \in ConcRequireObjs : HostRequire(o)
    \/ \E i \in Instances, script \in ConcScripts : ThreadCompile(i, script)
    \/ \E i \in Instances : ThreadLoad(i)
    \/ \E i \in Instances : ThreadReturn(i)

-----------------------------------------------------------------------------
(* tst-size.c: the size test at run time.                                  *)

tst_size_over_opcode == "SIZE-OVER"
tst_size_under_opcode == "SIZE-UNDER"

SizeOpcodes == {tst_size_over_opcode, tst_size_under_opcode}

(* The message: whether mail_get_physical_size works, and the size. *)
Mails ==
    { [ok |-> TRUE, psize |-> n] : n \in 0..MaxSize }
    \cup { [ok |-> FALSE, psize |-> 0] }

(* The number operand at the address: whether sieve_opr_number_read can    *)
(* read it, and its value.                                                 *)
NumberOperands ==
    { [ok |-> TRUE, value |-> n] : n \in 0..MaxSize }
    \cup { [ok |-> FALSE, value |-> 0] }

(* sieve_opr_number_read: a number read advances the address by a byte.    *)
sieve_opr_number_read(opr, address) ==
    [ok |-> opr.ok, value |-> opr.value,
     address |-> IF opr.ok THEN address + 1 ELSE address]

(* tst_size_get *)
tst_size_get(m) == [ok |-> m.ok, size |-> m.psize]

(* The comparison of tst_size_opcode_execute that lets equality pass. *)
SizeTestOrEqual(opcode, mail_size, limit) ==
    IF opcode = tst_size_over_opcode
    THEN mail_size >= limit
    ELSE mail_size <= limit

(* The comparison of tst_size_opcode_execute *)
SizeTest(opcode, mail_size, limit) ==
    IF opcode = tst_size_over_opcode
    THEN mail_size > limit
    ELSE mail_size < limit

(* tst_size_opcode_execute: the program counter of the interpreter stands  *)
(* behind the opcode, at the operand opr.                                  *)
tst_size_opcode_execute(opcode, m, ip, opr) ==
    LET limit == sieve_opr_number_read(opr, ip.address)
        mail_size == tst_size_get(m)
        ran == [op |-> opcode, opr |-> opr]
    IN  IF ~limit.ok
        THEN [ip EXCEPT !.ret = FALSE, !.ran = ran]
        ELSE IF ~mail_size.ok
        THEN [ip EXCEPT !.ret = FALSE, !.ran = ran,
                        !.address = limit.address]
        ELSE [ip EXCEPT !.ret = TRUE, !.ran = ran,
                        !.address = limit.address,
                        !.test_result =
                            SizeTest(opcode, mail_size.size, limit.value)]

NoOperand == [ok |-> FALSE, value |-> 0]

-----------------------------------------------------------------------------
(* tst-size.c: the size test in the validator and the generator.  The      *)
(* validator's walk over the arguments of a command (sieve-validator.c) is *)
(* not part of the sources at hand and is modelled from the specification  *)
(* document.                                                               *)

(* enum sieve_ast_argument_type, as far as the size test meets it *)
SAAT_TAG == "tag"
SAAT_NUMBER == "number"
SAAT_STRING == "string"

Argument(type, name) == [type |-> type, name |-> name]

(* size_over_tag, size_under_tag: the tags tst_size_registered registers   *)
size_over_tag == Argument(SAAT_TAG, "over")
size_under_tag == Argument(SAAT_TAG, "under")

(* struct tst_size_context_data: type *)
SIZE_UNASSIGNED == "SIZE_UNASSIGNED"
SIZE_UNDER == "SIZE_UNDER"
SIZE_OVER == "SIZE_OVER"

(* The number of positional arguments in the definition of tst_size *)
tst_size_positional_arguments == 1

(* tst_size_pre_validate *)
tst_size_pre_validate == [type |-> SIZE_UNASSIGNED]

(* tst_size_validate_over_tag: the tag is detached when it is accepted *)
tst_size_validate_over_tag(ctx_data) ==
    IF ctx_data.type # SIZE_UNASSIGNED
    THEN [ok |-> FALSE, data |-> ctx_data, errors |-> <<"dup-tag">>]
    ELSE [ok |-> TRUE, data |-> [ctx_data EXCEPT !.type = SIZE_OVER],
          errors |-> <<>>]

(* tst_size_validate_under_tag *)
tst_size_validate_under_tag(ctx_data) ==
    IF ctx_data.type # SIZE_UNASSIGNED
    THEN [ok |-> FALSE, data |-> ctx_data, errors |-> <<"dup-tag">>]
    ELSE [ok |-> TRUE, data |-> [ctx_data EXCEPT !.type = SIZE_UNDER],
          errors |-> <<>>]

(* sieve_validate_positional_argument: the argument has the type asked for *)
sieve_validate_positional_argument(arg, req_type) ==
    [ok |-> arg.type = req_type,
     errors |-> IF arg.type = req_type THEN <<>> ELSE <<"limit-type">>]

(* tst_size_validate that does not ask for a tag *)
tst_size_validate_untagged(ctx_data, first_positional) ==
    sieve_validate_positional_argument(first_positional, SAAT_NUMBER)

(* tst_size_validate *)
tst_size_validate(ctx_data, first_positional) ==
    IF ctx_data.type = SIZE_UNASSIGNED
    THEN [ok |-> FALSE, errors |-> <<"no-tag">>]
    ELSE sieve_validate_positional_argument(first_positional, SAAT_NUMBER)

(* tst_size_generate: the opcode emitted *)
tst_size_generate(ctx_data) ==
    IF ctx_data.type = SIZE_OVER
    THEN tst_size_over_opcode
    ELSE tst_size_under_opcode

RECURSIVE ValidateTags(_, _)
(* The validator's walk over the leading tags of a size test: each tag is  *)
(* given to the validate hook it was registered with, and the walk stops   *)
(* at the first hook that fails.  rest holds the arguments left.           *)
ValidateTags(args, ctx_data) ==
    IF args = <<>> \/ Head(args).type # SAAT_TAG
    THEN [ok |-> TRUE, data |-> ctx_data, rest |-> args, errors |-> <<>>]
    ELSE LET t == IF Head(args) = size_over_tag
                  THEN tst_size_validate_over_tag(ctx_data)
                  ELSE tst_size_validate_under_tag(ctx_data)
         IN  IF ~t.ok
             THEN [ok |-> FALSE, data |-> t.data, rest |-> Tail(args),
                   errors |-> t.errors]
             ELSE ValidateTags(Tail(args), t.data)

(* The validator on a size test, and the generator when validation passed  *)
(* (sieve_compile_script generates only what was validated): the context   *)
(* is made by the pre_validate hook, the tags are validated, the number of *)
(* positional arguments is compared with the one the command asks for, and *)
(* the validate hook is called.                                            *)
ValidateSizeTest(args) ==
    LET tags == ValidateTags(args, tst_size_pre_validate)
        v == tst_size_validate(tags.data, Head(tags.rest))
        Out(valid, errors, emitted) ==
            [done |-> TRUE, args |-> args, valid |-> valid,
             errors |-> errors, type |-> tags.data.type,
             emitted |-> emitted]
    IN  IF ~tags.ok THEN Out(FALSE, tags.errors, "none")
        ELSE IF Len(tags.rest) # tst_size_positional_arguments
        THEN Out(FALSE, <<"positional-count">>, "none")
        ELSE IF ~v.ok THEN Out(FALSE, v.errors, "none")
        ELSE Out(TRUE, <<>>, tst_size_generate(tags.data))

(* The argument lists of a size test: tags, then numbers and strings.      *)
SizeArguments ==
    { args \in
        { t \o q : t \in SeqsUpTo({size_over_tag, size_under_tag}, MaxArgs),
                   q \in SeqsUpTo({Argument(SAAT_NUMBER, "limit"),
                                   Argument(SAAT_STRING, "limit")}, MaxArgs) } :
        Len(args) <= MaxArgs }

NoSizeTest ==
    [done |-> FALSE, args |-> <<>>, valid |-> FALSE, errors |-> <<>>,
     type |-> SIZE_UNASSIGNED, emitted |-> "none"]

(* The interpreter before it executes an operation. *)
InterpStart(t) ==
    [test_result |-> t, address |-> 0, ret |-> FALSE,
     ran |-> [op |-> "none", opr |-> NoOperand]]

IdleSize ==
    /\ mail = [ok |-> FALSE, psize |-> 0]
    /\ interp = InterpStart(FALSE)
    /\ sz = NoSizeTest

(* A message is given to the interpreter; the test register holds the      *)
(* result of an earlier test.                                              *)
InitSize ==
    /\ mail \in Mails
    /\ interp \in { InterpStart(t) : t \in BOOLEAN }
    /\ sz = NoSizeTest

(* The interpreter executes a SIZE-OVER or SIZE-UNDER operation. *)
SizeExecute(opcode, opr) ==
    /\ interp.ran.op = "none"
    /\ interp' = tst_size_opcode_execute(opcode, mail, interp, opr)
    /\ UNCHANGED <<mail, sz>>

(* A size test with the given arguments is validated and, when valid,      *)
(* generated.                                                              *)
SizeCompile(args) ==
    /\ ~sz.done
    /\ sz' = ValidateSizeTest(args)
    /\ UNCHANGED <<mail, interp>>

NextSize ==
    \/ \E opcode \in SizeOpcodes, opr \in NumberOperands :
            SizeExecute(opcode, opr)
    \/ \E args \in SizeArguments : SizeCompile(args)

(***************************************************************************)
(* Address-part operands (sieve-address-parts.c).  The binary              *)
(* (sieve-binary.c), the operand codes (sieve-code.h) and the address-part *)
(* codes (sieve-address-parts.h) are not part of the sources at hand and   *)
(* are modelled from the specification document.                           *)
(***************************************************************************)

(* enum sieve_address_part_code *)
SIEVE_ADDRESS_PART_ALL == 0
SIEVE_ADDRESS_PART_LOCAL == 1
SIEVE_ADDRESS_PART_DOMAIN == 2
SIEVE_ADDRESS_PART_CUSTOM == 128

(* The operand class code of an address-part operand. *)
SIEVE_OPERAND_ADDRESS_PART == 5

(* The number of values of an unsigned char. *)
UCharValues == 256

(* struct sieve_address_part: identifier, code, extension, ext_code *)
AddressPart(identifier, code, extension, ext_code) ==
    [identifier |-> identifier, code |-> code, extension |-> extension,
     ext_code |-> ext_code]

(* The NULL pointer to an address-part. *)
NoAddressPart == AddressPart("NULL", 0, NULL, 0)

all_address_part == AddressPart("all", SIEVE_ADDRESS_PART_ALL, NULL, 0)
local_address_part ==
    AddressPart("localpart", SIEVE_ADDRESS_PART_LOCAL, NULL, 0)
domain_address_part ==
    AddressPart("domain", SIEVE_ADDRESS_PART_DOMAIN, NULL, 0)

sieve_core_address_parts ==
    <<all_address_part, local_address_part, domain_address_part>>

sieve_core_address_parts_count == Len(sieve_core_address_parts)

(* The extensions that provide address-parts: "subaddress" provides two    *)
(* through get_part, "single" provides one through address_part.           *)
AddrpExtensions == {"subaddress", "single"}

user_address_part ==
    AddressPart("user", SIEVE_ADDRESS_PART_CUSTOM, "subaddress", 0)
detail_address_part ==
    AddressPart("detail", SIEVE_ADDRESS_PART_CUSTOM, "subaddress", 1)
single_address_part ==
    AddressPart("single", SIEVE_ADDRESS_PART_CUSTOM, "single", 0)

(* struct sieve_address_part_extension: address_part *)
ExtAddressPart(x) ==
    IF x = "single" THEN single_address_part ELSE NoAddressPart

(* struct sieve_address_part_extension: get_part is not NULL *)
HasGetPart(x) == x = "subaddress"

(* struct sieve_address_part_extension: get_part(code) *)
get_part(x, code) ==
    IF x = "subaddress" /\ code = 0 THEN user_address_part
    ELSE IF x = "subaddress" /\ code = 1 THEN detail_address_part
    ELSE NoAddressPart

(* How many extensions a binary links before the address-part extensions.  *)
LinkedBefore == {0, 1, SIEVE_ADDRESS_PART_CUSTOM - 1}

(* The id of an address-part extension in the process-wide registry; the   *)
(* ids below are held by the extensions registered before it.              *)
AddrpExtId(x) ==
    IF x = "single" THEN SIEVE_ADDRESS_PART_CUSTOM + 2
    ELSE SIEVE_ADDRESS_PART_CUSTOM + 3

(* A binary that links the first n extensions of the registry. *)
NewBinary(n) ==
    [data |-> <<>>, extensions |-> [i \in 1..n |-> i - 1], objects |-> {}]

(* sieve_binary_extension_link: the extension is appended to the           *)
(* extension-dependency table unless it is there.                          *)
sieve_binary_extension_link(b, ext_id) ==
    IF \E i \in 1..Len(b.extensions) : b.extensions[i] = ext_id THEN b
    ELSE [b EXCEPT !.extensions = Append(@, ext_id)]

(* sieve_binary_extension_get_index: the index of the extension in the     *)
(* extension-dependency table, -1 when it is not there.                    *)
sieve_binary_extension_get_index(b, ext_id) ==
    IF \E i \in 1..Len(b.extensions) : b.extensions[i] = ext_id
    THEN (CHOOSE i \in 1..Len(b.extensions) : b.extensions[i] = ext_id) - 1
    ELSE -1

(* sieve_binary_extension_get_by_index *)
sieve_binary_extension_get_by_index(b, index) ==
    IF index >= 0 /\ index < Len(b.extensions)
    THEN [found |-> TRUE, ext_id |-> b.extensions[index + 1]]
    ELSE [found |-> FALSE, ext_id |-> -1]

(* sieve_address_part_extension_get: NULL when the extension set none *)
sieve_address_part_extension_get(b, ext_id) ==
    IF \E o \in b.objects : o.ext_id = ext_id
    THEN (CHOOSE o \in b.objects : o.ext_id = ext_id).ext
    ELSE NULL

(* sieve_address_part_extension_set *)
sieve_address_part_extension_set(b, ext_id, x) ==
    [b EXCEPT !.objects =
        {o \in @ : o.ext_id # ext_id} \cup {[ext_id |-> ext_id, ext |-> x]}]

(* sieve_binary_emit_byte *)
sieve_binary_emit_byte(b, byte) ==
    [b EXCEPT !.data = Append(@, byte % UCharValues)]

(* sieve_operand_emit_code *)
sieve_operand_emit_code(b, code) == sieve_binary_emit_byte(b, code)

(* sieve_binary_read_byte *)
sieve_binary_read_byte(b, address) ==
    IF address < Len(b.data)
    THEN [ok |-> TRUE, value |-> b.data[address + 1],
          address |-> address + 1]
    ELSE [ok |-> FALSE, value |-> 0, address |-> address]

(* sieve_operand_read: the class of the operand, NULL for no operand *)
sieve_operand_read(b, address) ==
    LET r == sieve_binary_read_byte(b, address)
    IN  [class |-> IF ~r.ok THEN NULL
                   ELSE IF r.value = SIEVE_OPERAND_ADDRESS_PART
                        THEN "address-part" ELSE "other",
         address |-> r.address]

(* opr_address_part_emit *)
opr_address_part_emit(b, addrp) ==
    sieve_binary_emit_byte(
        sieve_operand_emit_code(b, SIEVE_OPERAND_ADDRESS_PART), addrp.code)

(* opr_address_part_emit_ext: addrp_code is an unsigned char *)
opr_address_part_emit_ext(b, addrp, ext_id) ==
    LET addrp_code == (SIEVE_ADDRESS_PART_CUSTOM
                        + sieve_binary_extension_get_index(b, ext_id))
                      % UCharValues
        b1 == sieve_binary_emit_byte(
                sieve_operand_emit_code(b, SIEVE_OPERAND_ADDRESS_PART),
                addrp_code)
    IN  IF ExtAddressPart(addrp.extension) = NoAddressPart
        THEN sieve_binary_emit_byte(b1, addrp.ext_code)
        ELSE b1

(* sieve_opr_address_part_read that takes an operand of any class for an   *)
(* address-part operand.                                                   *)
sieve_opr_address_part_read_any(b, address) ==
    LET operand == sieve_operand_read(b, address)
        c == sieve_binary_read_byte(b, operand.address)
        x == sieve_binary_extension_get_by_index(b,
                c.value - SIEVE_ADDRESS_PART_CUSTOM)
        ap_ext == sieve_address_part_extension_get(b, x.ext_id)
        code == sieve_binary_read_byte(b, c.address)
    IN  IF operand.class = NULL
        THEN [addrp |-> NoAddressPart, address |-> operand.address]
        ELSE IF ~c.ok
        THEN [addrp |-> NoAddressPart, address |-> c.address]
        ELSE IF c.value < SIEVE_ADDRESS_PART_CUSTOM
        THEN [addrp |-> IF c.value < sieve_core_address_parts_count
                        THEN sieve_core_address_parts[c.value + 1]
                        ELSE NoAddressPart,
              address |-> c.address]
        ELSE IF ~x.found \/ ap_ext = NULL
        THEN [addrp |-> NoAddressPart, address |-> c.address]
        ELSE IF ExtAddressPart(ap_ext) # NoAddressPart
        THEN [addrp |-> ExtAddressPart(ap_ext), address |-> c.address]
        ELSE [addrp |-> IF code.ok /\ HasGetPart(ap_ext)
                        THEN get_part(ap_ext, code.value)
                        ELSE NoAddressPart,
              address |-> code.address]

(* sieve_opr_address_part_read: the address-part, and the address after    *)
(* the bytes read                                                          *)
sieve_opr_address_part_read(b, address) ==
    LET operand == sieve_operand_read(b, address)
        c == sieve_binary_read_byte(b, operand.address)
        x == sieve_binary_extension_get_by_index(b,
                c.value - SIEVE_ADDRESS_PART_CUSTOM)
        ap_ext == sieve_address_part_extension_get(b, x.ext_id)
        code == sieve_binary_read_byte(b, c.address)
    IN  IF operand.class # "address-part"
        THEN [addrp |-> NoAddressPart, address |-> operand.address]
        ELSE IF ~c.ok
        THEN [addrp |-> NoAddressPart, address |-> c.address]
        ELSE IF c.value < SIEVE_ADDRESS_PART_CUSTOM
        THEN [addrp |-> IF c.value < sieve_core_address_parts_count
                        THEN sieve_core_address_parts[c.value + 1]
                        ELSE NoAddressPart,
              address |-> c.address]
        ELSE IF ~x.found \/ ap_ext = NULL
        THEN [addrp |-> NoAddressPart, address |-> c.address]
        ELSE IF ExtAddressPart(ap_ext) # NoAddressPart
        THEN [addrp |-> ExtAddressPart(ap_ext), address |-> c.address]
        ELSE [addrp |-> IF code.ok /\ HasGetPart(ap_ext)
                        THEN get_part(ap_ext, code.value)
                        ELSE NoAddressPart,
              address |-> code.address]

(* tag_address_part_generate: arg carries the address-part (context) and   *)
(* the extension id stored by tag_address_part_validate                    *)
tag_address_part_generate(b, arg) ==
    LET addrp == arg.context
    IN  IF addrp.extension = NULL
        THEN IF addrp.code < SIEVE_ADDRESS_PART_CUSTOM
             THEN [ok |-> TRUE, sbin |-> opr_address_part_emit(b, addrp)]
             ELSE [ok |-> FALSE, sbin |-> b]
        ELSE [ok |-> TRUE,
              sbin |-> opr_address_part_emit_ext(b, addrp, arg.ext_id)]

(* The tag arguments that tag_address_part_validate produces: the core     *)
(* address-parts are registered with extension id -1, the others with the  *)
(* id of their extension.                                                  *)
AddrpArgs ==
    { [context |-> sieve_core_address_parts[i], ext_id |-> -1] :
        i \in 1..sieve_core_address_parts_count }
    \cup { [context |-> a, ext_id |-> AddrpExtId(a.extension)] :
            a \in {user_address_part, detail_address_part,
                   single_address_part} }

NoRead == [done |-> FALSE, at |-> 0, addrp |-> NoAddressPart, address |-> 0]

IdleAddrp ==
    /\ binary = NewBinary(0)
    /\ ap = [emitted |-> <<>>, read |-> NoRead]

InitAddrp ==
    /\ binary \in { NewBinary(n) : n \in LinkedBefore }
    /\ ap = [emitted |-> <<>>, read |-> NoRead]

(* The generator links an extension that the script requires, and the      *)
(* extension sets its address-part extension object in the binary.         *)
LinkCall(x) ==
    /\ sieve_binary_extension_get_index(binary, AddrpExtId(x)) = -1
    /\ binary' = sieve_address_part_extension_set(
                 sieve_binary_extension_link(binary, AddrpExtId(x)),
                 AddrpExtId(x), x)
    /\ UNCHANGED ap

(* tag_address_part_generate(generator, arg, cmd): the extension of the    *)
(* address-part was linked when the script required it.                    *)
GenerateCall(arg) ==
    /\ Len(ap.emitted) < MaxOperands
    /\ arg.context.extension # NULL
          => sieve_binary_extension_get_index(binary, arg.ext_id) # -1
    /\ LET g == tag_address_part_generate(binary, arg)
       IN  /\ binary' = g.sbin
           /\ ap' = [ap EXCEPT !.emitted = Append(@,
                        [arg |-> arg, ok |-> g.ok, at |-> Len(binary.data),
                         end |-> Len(g.sbin.data)])]

(* sieve_opr_address_part_read(sbin, &address) *)
ReadCall(at) ==
    /\ at < Len(binary.data)
    /\ LET r == sieve_opr_address_part_read(binary, at)
       IN  ap' = [ap EXCEPT !.read = [done |-> TRUE, at |-> at,
                                      addrp |-> r.addrp,
                                      address |-> r.address]]
    /\ UNCHANGED binary

NextAddrp ==
    \/ \E x \in AddrpExtensions : LinkCall(x)
    \/ \E arg \in AddrpArgs : GenerateCall(arg)
    \/ \E at \in 0..(3 * MaxOperands) : ReadCall(at)

(* Binaries that another process wrote: the bytes at the address may be    *)
(* any operand, a core code inside or outside the core table, or the code  *)
(* of the first or second entry of the extension-dependency table; the     *)
(* table may or may not hold the address-part extensions, and these may or *)
(* may not have set their address-part extension object in this process.   *)
LoadedBytes ==
    {SIEVE_ADDRESS_PART_ALL, sieve_core_address_parts_count,
     SIEVE_OPERAND_ADDRESS_PART, SIEVE_ADDRESS_PART_CUSTOM,
     SIEVE_ADDRESS_PART_CUSTOM + 1}

LoadedTables ==
    {<<>>, <<AddrpExtId("subaddress")>>,
     <<AddrpExtId("single"), AddrpExtId("subaddress")>>,
     <<0, AddrpExtId("single")>>}

LoadedBinaries ==
    { [data |-> d, extensions |-> t,
       objects |-> { [ext_id |-> AddrpExtId(x), ext |-> x] : x \in o }] :
        d \in SeqsUpTo(LoadedBytes, MaxBytes), t \in LoadedTables,
        o \in SUBSET AddrpExtensions }

InitLoaded ==
    /\ binary \in LoadedBinaries
    /\ ap = [emitted |-> <<>>, read |-> NoRead]

NextLoaded == \E at \in 0..(MaxBytes - 1) : ReadCall(at)

(***************************************************************************)
(* Address matching (sieve-address-parts.c, sieve_address_match).          *)
(***************************************************************************)

(* struct message_address: name, mailbox, domain; a group start has no     *)
(* domain, a group end has neither mailbox nor domain (NullString).        *)
MessageAddress(name, mailbox, domain) ==
    [name |-> name, mailbox |-> mailbox, domain |-> domain]

s_alice == <<"a", "l", "i", "c", "e">>
s_Alice == <<"A", "l", "i", "c", "e">>
s_BOB == <<"B", "O", "B">>
s_bob == <<"b", "o", "b">>
s_friends == <<"f", "r", "i", "e", "n", "d", "s">>
s_example_org == <<"e", "x", "a", "m", "p", "l", "e", ".", "o", "r", "g">>
s_b_org == <<"b", ".", "o", "r", "g">>

(* The parsed addresses of the headers considered; the first is what       *)
(* message_address_parse yields for `Alice <alice@example.org>`.           *)
Addresses ==
    {MessageAddress(s_Alice, s_alice, s_example_org),
     MessageAddress(NullString, s_BOB, s_b_org),
     MessageAddress(NullString, s_friends, NullString),
     MessageAddress(NullString, NullString, NullString)}

(* The address lists: what message_address_parse returns for a header. *)
AddressLists == SeqsUpTo(Addresses, MaxAddrs)

addrp_all_extract_from(address) ==
    address.mailbox \o <<"@">> \o address.domain

addrp_domain_extract_from(address) == address.domain

addrp_localpart_mailbox_at(address) == address.mailbox \o <<"@">>
addrp_localpart_extract_from(address) == address.mailbox

(* addrp->extract_from: the function the address-part object points to. *)
extract_from(addrp, address) ==
    CASE addrp.identifier = "all" -> addrp_all_extract_from(address)
      [] addrp.identifier = "localpart" ->
            addrp_localpart_extract_from(address)
      [] addrp.identifier = "domain" -> addrp_domain_extract_from(address)
      [] OTHER -> NullString

(* The comparators: i;octet compares the octets, i;ascii-casemap compares  *)
(* them after folding the ASCII letters to one case.                       *)
Comparators == {"i;octet", "i;ascii-casemap"}

UpperCase == <<"A", "B", "L", "I", "C", "E", "O">>
LowerCase == <<"a", "b", "l", "i", "c", "e", "o">>

ascii_fold_char(c) ==
    IF \E i \in 1..Len(UpperCase) : UpperCase[i] = c
    THEN LowerCase[CHOOSE i \in 1..Len(UpperCase) : UpperCase[i] = c]
    ELSE c

ascii_fold(str) == [i \in 1..Len(str) |-> ascii_fold_char(str[i])]

(* The value as the comparator sees it. *)
cmp_normal(cmp, str) ==
    IF cmp = "i;ascii-casemap" THEN ascii_fold(str) ELSE str

(* The match types: is (the whole value), contains (a substring),          *)
(* matches (a pattern with the wildcards * and ?).                         *)
MatchTypes == {"is", "contains", "matches"}

RECURSIVE wildcard_match(_, _)
wildcard_match(v, k) ==
    IF k = <<>> THEN v = <<>>
    ELSE IF Head(k) = "*"
    THEN wildcard_match(v, Tail(k))
         \/ (v # <<>> /\ wildcard_match(Tail(v), k))
    ELSE /\ v # <<>>
         /\ Head(k) = "?" \/ Head(k) = Head(v)
         /\ wildcard_match(Tail(v), Tail(k))

mtch_match(mtch, cmp, value, key) ==
    LET v == cmp_normal(cmp, value)
        k == cmp_normal(cmp, key)
    IN  CASE mtch = "is" -> v = k
          [] mtch = "contains" ->
                \E i \in 0..(Len(v) - Len(k)) :
                    SubSeq(v, i + 1, i + Len(k)) = k
          [] OTHER -> wildcard_match(v, k)

(* struct sieve_match_context: match_type, comparator, key_list *)
MatchContext(mtch, cmp, keys) ==
    [match_type |-> mtch, comparator |-> cmp, key_list |-> keys]

(* sieve_match_value: the value matches one of the keys. *)
sieve_match_value(mctx, value) ==
    \E i \in 1..Len(mctx.key_list) :
        mtch_match(mctx.match_type, mctx.comparator, value, mctx.key_list[i])

(* The while loop of sieve_address_match from address i of the list on:    *)
(* matched, the addresses whose part was extracted, the parts given to     *)
(* sieve_match_value, and whether the assertion on the mailbox failed.     *)
RECURSIVE address_match_every(_, _, _, _)
address_match_every(addrp, mctx, addrs, i) ==
    IF i > Len(addrs)
    THEN [matched |-> FALSE, evaluated |-> <<>>, parts |-> <<>>,
          asserted |-> FALSE]
    ELSE LET addr == addrs[i]
             rest == address_match_every(addrp, mctx, addrs, i + 1)
         IN  IF addr.mailbox = NullString
             THEN rest
             ELSE LET part == extract_from(addrp, addr)
                      here == part # NullString
                              /\ sieve_match_value(mctx, part)
                  IN  [rest EXCEPT !.matched = here \/ @,
                                   !.evaluated = <<i>> \o @,
                                   !.parts = <<part>> \o @]

RECURSIVE address_match_from(_, _, _, _)
address_match_from(addrp, mctx, addrs, i) ==
    IF i > Len(addrs)
    THEN [matched |-> FALSE, evaluated |-> <<>>, parts |-> <<>>,
          asserted |-> FALSE]
    ELSE LET addr == addrs[i]
         IN  IF addr.domain # NullString
             THEN IF addr.mailbox = NullString
                  THEN [matched |-> FALSE, evaluated |-> <<>>,
                        parts |-> <<>>, asserted |-> TRUE]
                  ELSE LET part == extract_from(addrp, addr)
                       IN  IF part # NullString
                              /\ sieve_match_value(mctx, part)
                           THEN [matched |-> TRUE, evaluated |-> <<i>>,
                                 parts |-> <<part>>, asserted |-> FALSE]
                           ELSE LET r == address_match_from(addrp, mctx,
                                                            addrs, i + 1)
                                IN  [r EXCEPT !.evaluated = <<i>> \o @,
                                              !.parts = <<part>> \o @]
             ELSE address_match_from(addrp, mctx, addrs, i + 1)

(* sieve_address_match: data is the header value, given here as the list   *)
(* message_address_parse makes of it.                                      *)
sieve_address_match_every(addrp, mctx, data) ==
    address_match_every(addrp, mctx, data, 1)
sieve_address_match(addrp, mctx, data) ==
    address_match_from(addrp, mctx, data, 1)

(* The key lists of the tests considered. *)
KeyLists ==
    {<<s_alice>>, <<s_bob>>, <<s_example_org, s_b_org>>,
     <<s_alice \o <<"@">> \o s_example_org>>, <<(<<"*", "b", "?", "*">>)>>}

(* No address match was made. *)
NoMatch ==
    [done |-> FALSE, addrp |-> NoAddressPart,
     mctx |-> MatchContext("is", "i;octet", <<>>), data |-> <<>>,
     matched |-> FALSE, evaluated |-> <<>>, parts |-> <<>>]

(* The call of sieve_address_match of a test. *)
AddressMatchCall(addrp, mctx, data) ==
    /\ ~am.done
    /\ LET r == sieve_address_match(addrp, mctx, data)
       IN  /\ ~r.asserted
           /\ am' = [done |-> TRUE, addrp |-> addrp, mctx |-> mctx,
                     data |-> data, matched |-> r.matched,
                     evaluated |-> r.evaluated, parts |-> r.parts]
    /\ UNCHANGED opt

NextMatch ==
    \E addrp \in {all_address_part, local_address_part, domain_address_part},
       mtch \in MatchTypes, cmp \in Comparators, keys \in KeyLists,
       data \in AddressLists :
        AddressMatchCall(addrp, MatchContext(mtch, cmp, keys), data)

(***************************************************************************)
(* The optional operands of an address test (sieve-address-parts.c,        *)
(* sieve_addrmatch_default_get_optionals and _dump_optionals).             *)
(***************************************************************************)

(* The operand class codes of the optional-present marker, of a comparator *)
(* operand and of a match-type operand.                                    *)
SIEVE_OPERAND_OPTIONAL == 0
SIEVE_OPERAND_COMPARATOR == 3
SIEVE_OPERAND_MATCH_TYPE == 4

(* enum sieve_addrmatch_opt_operand: the option codes of the switch of the *)
(* two functions, with the values the enumeration gives them.              *)
SIEVE_AM_OPT_END == 0
SIEVE_AM_OPT_COMPARATOR == 1
SIEVE_AM_OPT_ADDRESS_PART == 2
SIEVE_AM_OPT_MATCH_TYPE == 3

(* An option code that no address test knows. *)
UnknownOptCode == SIEVE_AM_OPT_MATCH_TYPE + 1

(* The core comparators and match types, by code. *)
sieve_core_comparators == <<"i;octet", "i;ascii-casemap">>
sieve_core_match_types == <<"is", "contains", "matches">>

(* sieve_operand_optional_present: the marker is consumed when it is there *)
sieve_operand_optional_present(b, address) ==
    LET r == sieve_binary_read_byte(b, address)
    IN  IF r.ok /\ r.value = SIEVE_OPERAND_OPTIONAL
        THEN [present |-> TRUE, address |-> r.address]
        ELSE [present |-> FALSE, address |-> address]

(* sieve_operand_optional_read: the next option code, 0 when none is read  *)
sieve_operand_optional_read(b, address) ==
    LET r == sieve_binary_read_byte(b, address)
    IN  [ok |-> r.ok, opt_code |-> IF r.ok THEN r.value ELSE 0,
         address |-> r.address]

(* An operand of a class whose objects are all core objects: the class     *)
(* byte, then the code of the object in the table; NULL when either is     *)
(* not as expected.                                                        *)
core_operand_read(b, address, class, table) ==
    LET operand == sieve_binary_read_byte(b, address)
        c == sieve_binary_read_byte(b, operand.address)
    IN  IF ~operand.ok \/ operand.value # class
        THEN [object |-> NULL, address |-> operand.address]
        ELSE IF ~c.ok \/ c.value >= Len(table)
        THEN [object |-> NULL, address |-> c.address]
        ELSE [object |-> table[c.value + 1], address |-> c.address]

(* sieve_opr_comparator_read *)
sieve_opr_comparator_read(b, address) ==
    core_operand_read(b, address, SIEVE_OPERAND_COMPARATOR,
                      sieve_core_comparators)

(* sieve_opr_match_type_read *)
sieve_opr_match_type_read(b, address) ==
    core_operand_read(b, address, SIEVE_OPERAND_MATCH_TYPE,
                      sieve_core_match_types)

(* sieve_opr_address_part_dump: the line printed, NULL for none *)
sieve_opr_address_part_dump(b, address) ==
    LET r == sieve_opr_address_part_read(b, address)
    IN  [ok |-> r.addrp # NoAddressPart,
         line |-> IF r.addrp # NoAddressPart
                  THEN <<"ADDRESS-PART", r.addrp.identifier>> ELSE <<>>,
         address |-> r.address]

(* sieve_opr_comparator_dump *)
sieve_opr_comparator_dump(b, address) ==
    LET r == sieve_opr_comparator_read(b, address)
    IN  [ok |-> r.object # NULL,
         line |-> IF r.object # NULL THEN <<"COMPARATOR", r.object>>
                  ELSE <<>>,
         address |-> r.address]

(* sieve_opr_match_type_dump *)
sieve_opr_match_type_dump(b, address) ==
    LET r == sieve_opr_match_type_read(b, address)
    IN  [ok |-> r.object # NULL,
         line |-> IF r.object # NULL THEN <<"MATCH-TYPE", r.object>>
                  ELSE <<>>,
         address |-> r.address]

(* The outputs of sieve_addrmatch_default_get_optionals: *addrp, *mtch and *)
(* *cmp, with the option codes read so far.                                *)
Optionals(addrp, mtch, cmp) ==
    [addrp |-> addrp, mtch |-> mtch, cmp |-> cmp, codes |-> <<>>]

(* One turn of the while loop of sieve_addrmatch_default_get_optionals:    *)
(* ret is "more" while the loop goes on, "true" or "false" when the        *)
(* function returns.                                                       *)
get_optionals_skip(b, address, out) ==
    LET c == sieve_operand_optional_read(b, address)
        o == [out EXCEPT !.codes = Append(@, c.opt_code)]
        cmp == sieve_opr_comparator_read(b, c.address)
        mtch == sieve_opr_match_type_read(b, c.address)
        addrp == sieve_opr_address_part_read(b, c.address)
    IN  IF ~c.ok
        THEN [ret |-> "false", address |-> c.address, out |-> out]
        ELSE CASE c.opt_code = SIEVE_AM_OPT_END ->
                    [ret |-> "true", address |-> c.address, out |-> o]
               [] c.opt_code = SIEVE_AM_OPT_COMPARATOR ->
                    [ret |-> IF cmp.object = NULL THEN "false" ELSE "more",
                     address |-> cmp.address,
                     out |-> [o EXCEPT !.cmp = cmp.object]]
               [] c.opt_code = SIEVE_AM_OPT_MATCH_TYPE ->
                    [ret |-> IF mtch.object = NULL THEN "false" ELSE "more",
                     address |-> mtch.address,
                     out |-> [o EXCEPT !.mtch = mtch.object]]
               [] c.opt_code = SIEVE_AM_OPT_ADDRESS_PART ->
                    [ret |-> IF addrp.addrp = NoAddressPart THEN "false"
                             ELSE "more",
                     address |-> addrp.address,
                     out |-> [o EXCEPT !.addrp = addrp.addrp]]
               [] OTHER ->
                    [ret |-> "more", address |-> c.address, out |-> o]
get_optionals_turn(b, address, out) ==
    LET c == sieve_operand_optional_read(b, address)
        o == [out EXCEPT !.codes = Append(@, c.opt_code)]
        cmp == sieve_opr_comparator_read(b, c.address)
        mtch == sieve_opr_match_type_read(b, c.address)
        addrp == sieve_opr_address_part_read(b, c.address)
    IN  IF ~c.ok
        THEN [ret |-> "false", address |-> c.address, out |-> out]
        ELSE CASE c.opt_code = SIEVE_AM_OPT_END ->
                    [ret |-> "true", address |-> c.address, out |-> o]
               [] c.opt_code = SIEVE_AM_OPT_COMPARATOR ->
                    [ret |-> IF cmp.object = NULL THEN "false" ELSE "more",
                     address |-> cmp.address,
                     out |-> [o EXCEPT !.cmp = cmp.object]]
               [] c.opt_code = SIEVE_AM_OPT_MATCH_TYPE ->
                    [ret |-> IF mtch.object = NULL THEN "false" ELSE "more",
                     address |-> mtch.address,
                     out |-> [o EXCEPT !.mtch = mtch.object]]
               [] c.opt_code = SIEVE_AM_OPT_ADDRESS_PART ->
                    [ret |-> IF addrp.addrp = NoAddressPart THEN "false"
                             ELSE "more",
                     address |-> addrp.address,
                     out |-> [o EXCEPT !.addrp = addrp.addrp]]
               [] OTHER ->
                    [ret |-> "false", address |-> c.address, out |-> o]

(* The while loop of sieve_addrmatch_default_get_optionals: t is what the  *)
(* turn at the address yields.                                             *)
RECURSIVE get_optionals_while(_, _, _)
get_optionals_while(b, address, out) ==
    CHOOSE r \in
        {IF t.ret = "more" THEN get_optionals_while(b, t.address, t.out)
         ELSE [ok |-> t.ret = "true", address |-> t.address, out |-> t.out] :
            t \in {get_optionals_turn(b, address, out)}} : TRUE

(* sieve_addrmatch_default_get_optionals: addrp, mtch and cmp are what the *)
(* caller has put in *addrp, *mtch and *cmp.                               *)
sieve_addrmatch_default_get_optionals_reset(b, address, addrp, mtch, cmp) ==
    LET p == sieve_operand_optional_present(b, address)
    IN  IF p.present
        THEN get_optionals_while(b, p.address,
                                 Optionals(addrp, mtch, "i;octet"))
        ELSE [ok |-> TRUE, address |-> p.address,
              out |-> Optionals(addrp, mtch, "i;octet")]
sieve_addrmatch_default_get_optionals(b, address, addrp, mtch, cmp) ==
    LET p == sieve_operand_optional_present(b, address)
    IN  IF p.present
        THEN get_optionals_while(b, p.address, Optionals(addrp, mtch, cmp))
        ELSE [ok |-> TRUE, address |-> p.address,
              out |-> Optionals(addrp, mtch, cmp)]

(* What sieve_addrmatch_default_dump_optionals has done: the option codes  *)
(* read and the lines printed.                                             *)
NoDump == [codes |-> <<>>, lines |-> <<>>]

(* One turn of the while loop of sieve_addrmatch_default_dump_optionals    *)
(* that prints nothing for a match-type option and leaves its operand      *)
(* where it is.                                                            *)
dump_optionals_turn_short(b, address, out) ==
    LET c == sieve_operand_optional_read(b, address)
        o == [out EXCEPT !.codes = Append(@, c.opt_code)]
        d == CASE c.opt_code = SIEVE_AM_OPT_COMPARATOR ->
                    sieve_opr_comparator_dump(b, c.address)
               [] OTHER -> sieve_opr_address_part_dump(b, c.address)
    IN  IF ~c.ok
        THEN [ret |-> "false", address |-> c.address, out |-> out]
        ELSE IF c.opt_code = SIEVE_AM_OPT_END
        THEN [ret |-> "true", address |-> c.address, out |-> o]
        ELSE IF c.opt_code = SIEVE_AM_OPT_MATCH_TYPE
        THEN [ret |-> "more", address |-> c.address, out |-> o]
        ELSE IF c.opt_code \in {SIEVE_AM_OPT_COMPARATOR,
                                SIEVE_AM_OPT_ADDRESS_PART}
        THEN [ret |-> IF d.ok THEN "more" ELSE "false",
              address |-> d.address,
              out |-> [o EXCEPT !.lines = IF d.ok THEN Append(@, d.line)
                                          ELSE @]]
        ELSE [ret |-> "false", address |-> c.address, out |-> o]

(* One turn of the while loop of sieve_addrmatch_default_dump_optionals *)
dump_optionals_turn(b, address, out) ==
    LET c == sieve_operand_optional_read(b, address)
        o == [out EXCEPT !.codes = Append(@, c.opt_code)]
        d == CASE c.opt_code = SIEVE_AM_OPT_COMPARATOR ->
                    sieve_opr_comparator_dump(b, c.address)
               [] c.opt_code = SIEVE_AM_OPT_MATCH_TYPE ->
                    sieve_opr_match_type_dump(b, c.address)
               [] OTHER -> sieve_opr_address_part_dump(b, c.address)
    IN  IF ~c.ok
        THEN [ret |-> "false", address |-> c.address, out |-> out]
        ELSE IF c.opt_code = SIEVE_AM_OPT_END
        THEN [ret |-> "true", address |-> c.address, out |-> o]
        ELSE IF c.opt_code \in {SIEVE_AM_OPT_COMPARATOR,
                                SIEVE_AM_OPT_MATCH_TYPE,
                                SIEVE_AM_OPT_ADDRESS_PART}
        THEN [ret |-> IF d.ok THEN "more" ELSE "false",
              address |-> d.address,
              out |-> [o EXCEPT !.lines = IF d.ok THEN Append(@, d.line)
                                          ELSE @]]
        ELSE [ret |-> "false", address |-> c.address, out |-> o]

(* The while loop of sieve_addrmatch_default_dump_optionals *)
RECURSIVE dump_optionals_while(_, _, _)
dump_optionals_while(b, address, out) ==
    CHOOSE r \in
        {IF t.ret = "more" THEN dump_optionals_while(b, t.address, t.out)
         ELSE [ok |-> t.ret = "true", address |-> t.address, out |-> t.out] :
            t \in {dump_optionals_turn(b, address, out)}} : TRUE

(* sieve_addrmatch_default_dump_optionals *)
sieve_addrmatch_default_dump_optionals(b, address) ==
    LET p == sieve_operand_optional_present(b, address)
    IN  IF p.present THEN dump_optionals_while(b, p.address, NoDump)
        ELSE [ok |-> TRUE, address |-> p.address, out |-> NoDump]

(* The options a trailer is made of: well-formed comparator, match-type    *)
(* and address-part options, the terminator, an unknown code, an option    *)
(* with an operand of another class, an option with an unknown object.     *)
OptionItems ==
    {<<SIEVE_AM_OPT_COMPARATOR, SIEVE_OPERAND_COMPARATOR, 0>>,
     <<SIEVE_AM_OPT_COMPARATOR, SIEVE_OPERAND_COMPARATOR, 1>>,
     <<SIEVE_AM_OPT_MATCH_TYPE, SIEVE_OPERAND_MATCH_TYPE, 1>>,
     <<SIEVE_AM_OPT_ADDRESS_PART, SIEVE_OPERAND_ADDRESS_PART,
       SIEVE_ADDRESS_PART_LOCAL>>,
     <<SIEVE_AM_OPT_END>>,
     <<UnknownOptCode>>,
     <<SIEVE_AM_OPT_COMPARATOR, SIEVE_OPERAND_ADDRESS_PART, 0>>,
     <<SIEVE_AM_OPT_ADDRESS_PART, SIEVE_OPERAND_ADDRESS_PART,
       sieve_core_address_parts_count>>}

(* The bytes of a sequence of options. *)
RECURSIVE Flatten(_)
Flatten(items) ==
    IF items = <<>> THEN <<>> ELSE Head(items) \o Flatten(Tail(items))

(* The code of the binaries considered: with or without the marker, the    *)
(* options, with or without the terminator.                                *)
Trailers ==
    {marker \o Flatten(items) \o terminator :
        marker \in {<<>>, <<SIEVE_OPERAND_OPTIONAL>>},
        items \in SeqsUpTo(OptionItems, MaxOptions),
        terminator \in {<<>>, <<SIEVE_AM_OPT_END>>}}

(* The trailer with a comparator option for i;ascii-casemap put in. *)
WithComparatorOption(data) ==
    LET option == <<SIEVE_OPERAND_OPTIONAL, SIEVE_AM_OPT_COMPARATOR,
                    SIEVE_OPERAND_COMPARATOR, 1>>
    IN  IF data # <<>> /\ Head(data) = SIEVE_OPERAND_OPTIONAL
        THEN option \o Tail(data)
        ELSE option \o <<SIEVE_AM_OPT_END>> \o data

(* No trailer was decoded. *)
NoDecode ==
    [done |-> FALSE, ok |-> FALSE, address |-> 0,
     given |-> Optionals(NoAddressPart, NULL, NULL),
     out |-> Optionals(NoAddressPart, NULL, NULL)]
NoDumped == [done |-> FALSE, ok |-> FALSE, address |-> 0, out |-> NoDump]

IdleMatch ==
    /\ am = NoMatch
    /\ opt = [get |-> NoDecode, dump |-> NoDumped]

(* The binaries whose code is a trailer *)
InitTrailerBinary ==
    /\ binary \in {[NewBinary(0) EXCEPT !.data = t] : t \in Trailers}
    /\ ap = [emitted |-> <<>>, read |-> NoRead]

(* An address test reads its optional operands at the start of the code,   *)
(* having set its defaults.                                                *)
GetOptionalsCall(addrp, mtch, cmp) ==
    /\ ~opt.get.done
    /\ LET r == sieve_addrmatch_default_get_optionals(binary, 0, addrp,
                                                      mtch, cmp)
       IN  opt' = [opt EXCEPT !.get =
                     [done |-> TRUE, ok |-> r.ok, address |-> r.address,
                      given |-> Optionals(addrp, mtch, cmp),
                      out |-> r.out]]
    /\ UNCHANGED am

(* The dumper prints the optional operands at the start of the code. *)
DumpOptionalsCall ==
    /\ ~opt.dump.done
    /\ LET r == sieve_addrmatch_default_dump_optionals(binary, 0)
       IN  opt' = [opt EXCEPT !.dump =
                     [done |-> TRUE, ok |-> r.ok, address |-> r.address,
                      out |-> r.out]]
    /\ UNCHANGED am

NextOptionals ==
    \/ \E addrp \in {all_address_part, domain_address_part},
          mtch \in {"is", "matches"}, cmp \in Comparators :
            GetOptionalsCall(addrp, mtch, cmp)
    \/ DumpOptionalsCall

(***************************************************************************)
(* Opening a script (sieve.c, sieve_open_script).                          *)
(***************************************************************************)

(* Milliseconds per second, as sieve_resource_usage_is_excessive has it. *)
MsecsPerSec == 1000

(* The width of an unsigned int.  A value of that type is held as its     *)
(* high and its low half, so that the arithmetic is that of the type.      *)
UIntBits == 32
UIntHalf == 2 ^ (UIntBits \div 2)

(* The unsigned int of a number below UIntHalf * UIntHalf. *)
UInt(n) == [hi |-> (n \div UIntHalf) % UIntHalf, lo |-> n % UIntHalf]

UINT_MAX == [hi |-> UIntHalf - 1, lo |-> UIntHalf - 1]

(* a < b, a + b and a - b on unsigned ints; sums and differences wrap. *)
UIntLess(a, b) == a.hi < b.hi \/ (a.hi = b.hi /\ a.lo < b.lo)

(* a * k, which wraps, and a / k for a factor k below UIntHalf. *)
UIntMul(a, k) ==
    [hi |-> (a.hi * k + ((a.lo * k) \div UIntHalf)) % UIntHalf,
     lo |-> (a.lo * k) % UIntHalf]
UIntDiv(a, k) ==
    [hi |-> a.hi \div k, lo |-> ((a.hi % k) * UIntHalf + a.lo) \div k]
UIntAdd(a, b) ==
    [hi |-> (a.hi + b.hi + ((a.lo + b.lo) \div UIntHalf)) % UIntHalf,
     lo |-> (a.lo + b.lo) % UIntHalf]
UIntSub(a, b) ==
    [hi |-> (a.hi - b.hi - (IF a.lo < b.lo THEN 1 ELSE 0) + UIntHalf)
                % UIntHalf,
     lo |-> (a.lo - b.lo + UIntHalf) % UIntHalf]

(* struct sieve_resource_usage: cpu_time_msecs *)
ResourceUsage(cpu_time_msecs) == [cpu_time_msecs |-> UInt(cpu_time_msecs)]

(* sieve_resource_usage_add whose sum wraps *)
sieve_resource_usage_add_wrap(dst, src) ==
    [dst EXCEPT !.cpu_time_msecs = UIntAdd(@, src.cpu_time_msecs)]

(* sieve_resource_usage_add: dst after the call *)
sieve_resource_usage_add(dst, src) ==
    IF UIntLess(UIntSub(UINT_MAX, dst.cpu_time_msecs), src.cpu_time_msecs)
    THEN [dst EXCEPT !.cpu_time_msecs = UINT_MAX]
    ELSE [dst EXCEPT !.cpu_time_msecs = UIntAdd(@, src.cpu_time_msecs)]

(* sieve_resource_usage_init *)
sieve_resource_usage_init == ResourceUsage(0)

(* sieve_resource_usage_is_excessive: i_assert panics when the limit in    *)
(* milliseconds does not fit an unsigned int; otherwise ret is what the    *)
(* function returns.                                                       *)
sieve_resource_usage_is_excessive(max_cpu_time_secs, rusage) ==
    LET max == UInt(max_cpu_time_secs)
        panics == UIntLess(UIntDiv(UINT_MAX, MsecsPerSec), max)
    IN  [panics |-> panics,
         ret |-> ~panics /\ UIntLess(UIntMul(max, MsecsPerSec),
                                     rusage.cpu_time_msecs)]

(* A stored or compiled binary: where it comes from, the modification time *)
(* of the source it was compiled from, the resource usage it records, and  *)
(* what sieve_binary_check_executable answers for it.                      *)
ScriptBinary(origin, source_mtime, rusage, executable) ==
    [origin |-> origin, source_mtime |-> source_mtime, rusage |-> rusage,
     executable |-> executable]

(* The NULL pointer to a binary. *)
NoSbin == ScriptBinary("NULL", 0, ResourceUsage(0), 0)

(* struct sieve_script: the modification time of the source, whether the   *)
(* source compiles, the binary stored alongside (NoSbin when there is      *)
(* none or it cannot be loaded), and what sieve_binary_check_executable    *)
(* answers for a binary compiled from it.                                  *)
SieveScript(mtime, compiles, stored, executable) ==
    [mtime |-> mtime, compiles |-> compiles, stored |-> stored,
     executable |-> executable]

(* sieve_script_binary_load *)
sieve_script_binary_load(script) == script.stored

(* sieve_binary_up_to_date: the source was not modified after the binary   *)
(* was compiled from it.                                                   *)
sieve_binary_up_to_date(sbin, script) == sbin.source_mtime >= script.mtime

(* sieve_compile_script as sieve_open_script sees it: a binary of the      *)
(* source as it is now, or NULL.                                           *)
open_compile_script(script) ==
    IF script.compiles
    THEN ScriptBinary("compiled", script.mtime, ResourceUsage(0),
                      script.executable)
    ELSE NoSbin

(* sieve_binary_set_resource_usage *)
sieve_binary_set_resource_usage(sbin, rusage) ==
    [sbin EXCEPT !.rusage = rusage]

(* sieve_binary_check_executable *)
sieve_binary_check_executable(sbin) == sbin.executable

(* The part of sieve_open_script_real that loads the stored binary and     *)
(* closes it when it is not up to date: the binary kept, and the binaries  *)
(* closed.                                                                 *)
open_script_load(script, max_cpu_time_secs) ==
    LET sbin == sieve_script_binary_load(script)
        x == sieve_resource_usage_is_excessive(max_cpu_time_secs,
                                               sbin.rusage)
    IN  IF sbin # NoSbin /\ x.panics
        THEN [sbin |-> sbin, rusage |-> sbin.rusage, closed |-> <<>>,
              panics |-> TRUE]
        ELSE IF sbin # NoSbin /\ ~x.ret
                /\ ~sieve_binary_up_to_date(sbin, script)
        THEN [sbin |-> NoSbin, rusage |-> sbin.rusage, closed |-> <<sbin>>,
              panics |-> FALSE]
        ELSE [sbin |-> sbin,
              rusage |-> IF sbin # NoSbin THEN sbin.rusage
                         ELSE sieve_resource_usage_init,
              closed |-> <<>>, panics |-> FALSE]

(* The end of sieve_open_script_real that returns a binary for which       *)
(* sieve_binary_check_executable answers 0.                                *)
open_script_check_lax(o, compiled) ==
    LET ret == sieve_binary_check_executable(o.sbin)
    IN  IF ret < 0
        THEN [sbin |-> NoSbin, compiled |-> compiled,
              closed |-> Append(o.closed, o.sbin),
              checked |-> <<o.sbin>>,
              errors |-> <<"failed to open script">>, panics |-> FALSE]
        ELSE [sbin |-> o.sbin, compiled |-> compiled, closed |-> o.closed,
              checked |-> <<o.sbin>>, errors |-> <<>>, panics |-> FALSE]

(* The end of sieve_open_script_real: the binary is checked, and closed    *)
(* with an error for the error handler when it cannot be executed.         *)
open_script_check(o, compiled) ==
    LET ret == sieve_binary_check_executable(o.sbin)
    IN  IF ret <= 0
        THEN [sbin |-> NoSbin, compiled |-> compiled,
              closed |-> Append(o.closed, o.sbin),
              checked |-> <<o.sbin>>,
              errors |-> IF ret < 0 THEN <<"failed to open script">>
                         ELSE <<"errorstr">>,
              panics |-> FALSE]
        ELSE [sbin |-> o.sbin, compiled |-> compiled, closed |-> o.closed,
              checked |-> <<o.sbin>>, errors |-> <<>>, panics |-> FALSE]

(* sieve_open_script_real: the binary returned, whether the script was     *)
(* compiled, the binaries closed and checked, the errors reported; the     *)
(* call does not return when sieve_resource_usage_is_excessive panics.     *)
sieve_open_script_real(script, max_cpu_time_secs) ==
    LET l == open_script_load(script, max_cpu_time_secs)
        c == open_compile_script(script)
    IN  IF l.panics
        THEN [sbin |-> NoSbin, compiled |-> FALSE, closed |-> <<>>,
              checked |-> <<>>, errors |-> <<>>, panics |-> TRUE]
        ELSE IF l.sbin # NoSbin THEN open_script_check(l, FALSE)
        ELSE IF c = NoSbin
        THEN [sbin |-> NoSbin, compiled |-> TRUE, closed |-> l.closed,
              checked |-> <<>>, errors |-> <<"compile">>, panics |-> FALSE]
        ELSE open_script_check(
                [l EXCEPT !.sbin =
                    sieve_binary_set_resource_usage(c, l.rusage)], TRUE)

(* sieve_open_script *)
sieve_open_script(script, max_cpu_time_secs) ==
    sieve_open_script_real(script, max_cpu_time_secs)

(* UINT_MAX / 1000: the largest limit in seconds that                      *)
(* sieve_resource_usage_is_excessive accepts.                              *)
CpuLimitMax ==
    UIntDiv(UINT_MAX, MsecsPerSec).hi * UIntHalf
        + UIntDiv(UINT_MAX, MsecsPerSec).lo

(* The CPU time limits of the instances: a few seconds, the largest limit  *)
(* accepted and the one above it; and the usages recorded.                 *)
CpuLimits == (1..MaxCpuSecs) \cup {CpuLimitMax, CpuLimitMax + 1}
CpuUsages ==
    {0} \cup {l * MsecsPerSec : l \in 1..MaxCpuSecs}
        \cup {l * MsecsPerSec + 1 : l \in 1..MaxCpuSecs}

(* The stored binaries and the scripts considered. *)
StoredBinaries ==
    {NoSbin} \cup
    {ScriptBinary("stored", t, ResourceUsage(u), x) :
        t \in 1..MaxMtime, u \in CpuUsages, x \in {-1, 0, 1}}
SieveScripts ==
    {SieveScript(t, c, b, x) :
        t \in 1..MaxMtime, c \in BOOLEAN, b \in StoredBinaries,
        x \in {-1, 0, 1}}

(* No script was opened. *)
NoOpen ==
    [done |-> FALSE, script |-> SieveScript(0, FALSE, NoSbin, 0),
     max_cpu_time_secs |-> 0, sbin |-> NoSbin, compiled |-> FALSE,
     closed |-> <<>>, checked |-> <<>>, errors |-> <<>>, panic |-> FALSE]

(* The usages added up: none, a millisecond, the limits and a millisecond  *)
(* more, half of the range, and the largest ones.                          *)
AddedUsages ==
    { ResourceUsage(u) : u \in CpuUsages \cup {1} }
    \cup { [cpu_time_msecs |-> w] :
            w \in { UINT_MAX, UIntSub(UINT_MAX, UInt(1)),
                    UIntSub(UINT_MAX, UInt(MsecsPerSec)),
                    [hi |-> UIntHalf \div 2, lo |-> 0] } }

(* Nothing was added yet. *)
NoUsage ==
    [dst |-> sieve_resource_usage_init, before |-> sieve_resource_usage_init,
     src |-> sieve_resource_usage_init, adds |-> 0]

IdleOpen == os = NoOpen /\ ru = NoUsage

(* sieve_resource_usage_add(&dst, &src) *)
UsageAddCall(src) ==
    /\ ru.adds < MaxAdds
    /\ ru' = [dst |-> sieve_resource_usage_add(ru.dst, src),
              before |-> ru.dst, src |-> src, adds |-> ru.adds + 1]
    /\ UNCHANGED os

NextUsage == \E src \in AddedUsages : UsageAddCall(src)

(* The call of sieve_open_script for a script: done when it has returned, *)
(* panic when the assertion of sieve_resource_usage_is_excessive ended the *)
(* process.                                                                *)
OpenScriptCall(script, max_cpu_time_secs) ==
    /\ ~os.done /\ ~os.panic
    /\ LET r == sieve_open_script(script, max_cpu_time_secs)
       IN  os' = [done |-> ~r.panics, script |-> script,
                  max_cpu_time_secs |-> max_cpu_time_secs, sbin |-> r.sbin,
                  compiled |-> r.compiled, closed |-> r.closed,
                  checked |-> r.checked, errors |-> r.errors,
                  panic |-> r.panics]
    /\ UNCHANGED ru

NextOpen ==
    \E script \in SieveScripts, limit \in CpuLimits :
        OpenScriptCall(script, limit)

(***************************************************************************)
(* The specifications.                                                     *)
(***************************************************************************)
vars ==
    <<execVars, compVars, sizeVars, addrpVars, matchVars, openVars, instVars>>

IdleOthers == IdleMatch /\ IdleOpen /\ IdleInst

Init == InitExec /\ InitComp /\ IdleSize /\ IdleAddrp /\ IdleOthers
Next ==
    NextExec
    /\ UNCHANGED <<compVars, sizeVars, addrpVars, matchVars, openVars,
                 instVars>>
Spec == Init /\ [][Next]_vars

NextCompile ==
    NextComp
    /\ UNCHANGED <<execVars, sizeVars, addrpVars, matchVars, openVars,
                 instVars>>
SpecCompile == Init /\ [][NextCompile]_vars

NextRegistryUse ==
    NextRegistry
    /\ UNCHANGED <<execVars, sizeVars, addrpVars, matchVars, openVars,
                 instVars>>
SpecRegistry == Init /\ [][NextRegistryUse]_vars

InitSizeTest == InitExec /\ InitComp /\ InitSize /\ IdleAddrp /\ IdleOthers
NextSizeTest ==
    NextSize
    /\ UNCHANGED <<execVars, compVars, addrpVars, matchVars, openVars,
                 instVars>>
SpecSize == InitSizeTest /\ [][NextSizeTest]_vars

InitAddrpOperands ==
    InitExec /\ InitComp /\ IdleSize /\ InitAddrp /\ IdleOthers
NextAddrpOperands ==
    NextAddrp
    /\ UNCHANGED <<execVars, compVars, sizeVars, matchVars, openVars,
                 instVars>>
SpecAddrp == InitAddrpOperands /\ [][NextAddrpOperands]_vars

NextAddressMatch ==
    NextMatch
    /\ UNCHANGED <<execVars, compVars, sizeVars, addrpVars, openVars,
                 instVars>>
SpecMatch == Init /\ [][NextAddressMatch]_vars

InitTrailer ==
    InitExec /\ InitComp /\ IdleSize /\ InitTrailerBinary /\ IdleOthers
NextTrailer ==
    NextOptionals
    /\ UNCHANGED <<execVars, compVars, sizeVars, addrpVars, openVars,
                 instVars>>
SpecOptionals == InitTrailer /\ [][NextTrailer]_vars

InitAddrpRead ==
    InitExec /\ InitComp /\ IdleSize /\ InitLoaded /\ IdleOthers
NextAddrpRead ==
    NextLoaded
    /\ UNCHANGED <<execVars, compVars, sizeVars, matchVars, openVars,
                 instVars>>
SpecAddrpRead == InitAddrpRead /\ [][NextAddrpRead]_vars

NextUsageAdd ==
    NextUsage
    /\ UNCHANGED <<execVars, compVars, sizeVars, addrpVars, matchVars,
                 instVars>>
SpecUsage == Init /\ [][NextUsageAdd]_vars

NextOpenScript ==
    NextOpen
    /\ UNCHANGED <<execVars, compVars, sizeVars, addrpVars, matchVars,
                 instVars>>
SpecOpen == Init /\ [][NextOpenScript]_vars

NextConcurrentUse ==
    NextConcurrent
    /\ UNCHANGED <<execVars, sizeVars, addrpVars, matchVars, openVars>>
SpecConcurrent == Init /\ [][NextConcurrentUse]_vars

-----------------------------------------------------------------------------
(* Properties of the execution session.                                    *)

(* The step is a call of op in an open multiscript session. *)
CallStep(op) ==
    /\ phase = "ms"
    /\ Len(calls') = Len(calls) + 1
    /\ calls'[Len(calls')].op = op

LastCall == calls[Len(calls)]

AllOk(dl) == \A i \in 1..Len(dl) : dl[i].ok
StoresTo(dl, f) == Cardinality({i \in 1..Len(dl) : dl[i].to = f /\ dl[i].ok})

(* The status sieve_run ends with for a binary. *)
RunStatus(bin) == IF bin.loads THEN bin.ret ELSE SIEVE_EXEC_BIN_CORRUPT

(* C1: in a multiscript session active, once false, never becomes true     *)
(* again; it becomes false only when no keep is left in effect or the      *)
(* status is <= 0; and a sieve_multiscript_run call on an inactive chain   *)
(* returns FALSE, runs no binary and leaves status, keep and the shared    *)
(* result as they were.                                                    *)
C1_InactiveForGood ==
    [][ /\ (phase # "none" /\ ~mscript.active) => ~mscript'.active
        /\ (mscript.active /\ ~mscript'.active)
              => (~mscript'.keep \/ mscript'.status <= 0)
        /\ (CallStep("run") /\ ~mscript.active)
              => /\ ~last'.retb
                 /\ ~calls'[Len(calls')].ran
                 /\ mscript'.status = mscript.status
                 /\ mscript'.keep = mscript.keep
                 /\ result' = result
                 /\ delivered' = delivered ]_vars

(* A run call was made on a chain that an earlier run had made inactive. *)
C1_Witness ==
    /\ phase = "ms"
    /\ Len(calls) >= 2
    /\ calls[1].op = "run" /\ calls[1].ran
    /\ LastCall.op = "run" /\ ~LastCall.ran
    /\ ~last.retb

(* The scripts of scenario S5. *)
S5_Script1 == [loads |-> TRUE, acts |-> <<ActFileinto("A")>>,
               ret |-> SIEVE_EXEC_OK]
S5_Script2 == [loads |-> TRUE, acts |-> <<ActKeep>>, ret |-> SIEVE_EXEC_OK]

(* The session start_execute, run(script 1), run(script 2), finish has     *)
(* ended and every delivery worked. (A logged run call that ran no binary  *)
(* stands for the call with any binary, script 2 included.)                *)
S5_Done ==
    /\ phase = "done"
    /\ ~mscript.teststream
    /\ Len(calls) = 3
    /\ calls[1] = Call("run", S5_Script1, TRUE)
    /\ calls[2].op = "run"
    /\ calls[2].ran => calls[2].bin = S5_Script2
    /\ calls[3].op = "finish"
    /\ AllOk(delivered)

C3_DiscardIffWillDiscard ==
    [][ CallStep("run_discard") =>
          /\ calls'[Len(calls')].ran
                <=> sieve_multiscript_will_discard(mscript, result)
          /\ ~sieve_multiscript_will_discard(mscript, result)
                => /\ mscript' = mscript
                   /\ result' = result
                   /\ delivered' = delivered
                   /\ phase' = phase ]_vars

(* C4: sieve_multiscript_tempfail on an active chain returns TEMP_FAILURE  *)
(* when nothing of the result has been executed; when part of it has been  *)
(* (not in test mode) it makes one implicit keep and returns FAILURE if    *)
(* that worked and KEEP_FAILED if not; on an inactive chain it returns the *)
(* stored status and makes no keep.                                        *)
C4_Tempfail ==
    [][ CallStep("tempfail") =>
          /\ (mscript.active /\ ~result.executed)
                => /\ last'.reti = SIEVE_EXEC_TEMP_FAILURE
                   /\ delivered' = delivered
          /\ (mscript.active /\ result.executed /\ ~mscript.teststream)
                => /\ Len(delivered') = Len(delivered) + 1
                   /\ SubSeq(delivered', 1, Len(delivered)) = delivered
                   /\ delivered'[Len(delivered')].implicit
                   /\ last'.reti = IF delivered'[Len(delivered')].ok
                                   THEN SIEVE_EXEC_FAILURE
                                   ELSE SIEVE_EXEC_KEEP_FAILED
          /\ ~mscript.active
                => /\ last'.reti = mscript.status
                   /\ delivered' = delivered ]_vars

(* tempfail fell back to an implicit keep that did not work. *)
C4_Witness ==
    /\ phase = "done" /\ last.op = "tempfail" /\ last.kept
    /\ last.reti = SIEVE_EXEC_KEEP_FAILED
    /\ ~delivered[Len(delivered)].ok

(* A script of the session ended with a runtime error. *)
RuntimeError ==
    \E i \in 1..Len(calls) :
        calls[i].ran /\ RunStatus(calls[i].bin) = SIEVE_EXEC_FAILURE

(* A successful implicit keep has retained the message. *)
Retained ==
    \E i \in 1..Len(delivered) : delivered[i].implicit /\ delivered[i].ok

(* sieve_execute has returned, or the chain has been finished. *)
SessionEnd == phase = "done" /\ last.op \in {"execute", "finish"}

(* C5 as stated: after a runtime error, either KEEP_FAILED is returned or  *)
(* a successful implicit keep has retained the message.                    *)
C5_KeepFailedOrRetained ==
    (SessionEnd /\ RuntimeError) =>
        (last.reti = SIEVE_EXEC_KEEP_FAILED \/ Retained)

(* C5, amended: after a runtime error in sieve_execute or in a multiscript *)
(* chain that is not in test mode, either KEEP_FAILED is returned, or      *)
(* sieve_execute returns TEMP_FAILURE because its implicit keep failed     *)
(* temporarily, or a successful implicit keep has retained the message.    *)
C5_NotDropped ==
    (SessionEnd /\ RuntimeError /\ ~mscript.teststream) =>
        \/ last.reti = SIEVE_EXEC_KEEP_FAILED
        \/ Retained
        \/ /\ last.op = "execute"
           /\ last.reti = SIEVE_EXEC_TEMP_FAILURE
           /\ ~AllOk(delivered)

(* A chain was finished after a runtime error whose implicit keep failed. *)
C5_Witness ==
    /\ SessionEnd /\ RuntimeError /\ ~mscript.teststream
    /\ last.op = "finish"
    /\ last.reti = SIEVE_EXEC_KEEP_FAILED
    /\ ~Retained

RECURSIVE IsSubSeq(_, _)
(* Every element of s occurs in t. *)
IsSubSeq(s, t) == s = <<>> \/ (InSeq(t, Head(s)) /\ IsSubSeq(Tail(s), t))

(* C6: when the run ends with a negative status, the actions accumulated   *)
(* stay in the result and none is executed: sieve_execute makes no         *)
(* delivery and no implicit keep and returns that status;                  *)
(* sieve_multiscript_run executes nothing, makes the chain inactive and    *)
(* returns FALSE.                                                          *)
C6_NegativeStatus ==
    [][ /\ (phase = "none" /\ phase' = "done"
                /\ RunStatus(calls'[1].bin) < 0)
              => /\ last'.reti = RunStatus(calls'[1].bin)
                 /\ delivered' = <<>>
                 /\ result'.actions = calls'[1].bin.acts
                 /\ result'.done = 0 /\ ~result'.executed
        /\ (CallStep("run") /\ calls'[Len(calls')].ran
                /\ RunStatus(calls'[Len(calls')].bin) < 0)
              => /\ mscript'.status = RunStatus(calls'[Len(calls')].bin)
                 /\ delivered' = delivered
                 /\ result'.done = result.done
                 /\ result'.executed = result.executed
                 /\ result'.executed_delivery = result.executed_delivery
                 /\ IsSubSeq(result.actions, result'.actions)
                 /\ IsSubSeq(calls'[Len(calls')].bin.acts, result'.actions)
                 /\ ~mscript'.active
                 /\ ~last'.retb ]_vars

(* A run of a chain ended with a negative status after adding an action. *)
C6_Witness ==
    /\ phase = "ms" /\ Len(calls) >= 1
    /\ LastCall.op = "run" /\ LastCall.ran
    /\ RunStatus(LastCall.bin) < 0
    /\ LastCall.bin.acts # <<>>
    /\ Len(result.actions) > result.done
    /\ ~mscript.active

(* sieve_execute has run a script that ended with OK. *)
ExecutedOk ==
    /\ phase = "done" /\ last.op = "execute"
    /\ RunStatus(calls[1].bin) = SIEVE_EXEC_OK

ImplicitKeeps(dl) == Cardinality({i \in 1..Len(dl) : dl[i].implicit})

(* C7: after a successful run through sieve_execute, exactly one keep is   *)
(* executed if the result holds no action, and no implicit keep is         *)
(* executed if a storing action accumulated.                               *)
C7_ImplicitKeep ==
    ExecutedOk =>
        /\ calls[1].bin.acts = <<>>
              => /\ Len(delivered) = 1
                 /\ delivered[1].implicit /\ delivered[1].to = "INBOX"
        /\ (\E i \in 1..Len(calls[1].bin.acts) :
                calls[1].bin.acts[i].kind \in {"fileinto", "keep"})
              => ImplicitKeeps(delivered) = 0

(* An empty script was executed and its implicit keep stored the message. *)
C7_Witness ==
    /\ ExecutedOk /\ calls[1].bin.acts = <<>>
    /\ delivered = <<Store("INBOX", TRUE, TRUE)>>
    /\ last.reti = SIEVE_EXEC_OK

-----------------------------------------------------------------------------
(* Properties of the compiler, checked under SpecCompile.                  *)

Parsed(c) == c.script.open = "ok" /\ c.script.parses
Validated(c) == sieve_validator_run(reg, c.script.cmds).result
Generated(c) == c.script.generates

(* C8: sieve_compile_script returns a binary iff parsing, validation and   *)
(* code generation all succeed, in that order; a failure at a stage stops  *)
(* the pipeline, returns no binary, sets the error to NOT_VALID unless the *)
(* script could not be opened, and the AST is released on every path.      *)
C8_CompilePipeline ==
    comp.done =>
        /\ comp.sbin <=> (Parsed(comp) /\ Validated(comp) /\ Generated(comp))
        /\ comp.stages =
              IF ~Parsed(comp) THEN <<"parse">>
              ELSE IF ~Validated(comp) THEN <<"parse", "validate">>
              ELSE <<"parse", "validate", "generate">>
        /\ (~comp.sbin /\ comp.script.open = "ok") => comp.error = "NOT_VALID"
        /\ comp.sbin => comp.error = "NONE"
        /\ comp.ast_refs = 0

C8_Witness ==
    /\ comp.done /\ Parsed(comp) /\ ~Validated(comp) /\ Generated(comp)
    /\ ~comp.sbin
    /\ comp.stages = <<"parse", "validate">>
    /\ comp.error = "NOT_VALID"
    /\ comp.ast_refs = 0

(* A require command at top-level position k that follows a command that   *)
(* is not a require command.                                               *)
Misplaced(cmds, k) ==
    /\ k \in 2..Len(cmds)
    /\ cmds[k].name = "require"
    /\ \E j \in 1..(k - 1) : cmds[j].name # "require"

PlacementDiag(c, k) == Diag("require-placement", <<k>>)

ValidationFailed(c) ==
    /\ ~c.sbin
    /\ c.stages = <<"parse", "validate">>
    /\ c.error = "NOT_VALID"

(* C9 as stated: for every script, if a require command appears at         *)
(* top-level position k > 0 and a command that is not a require command    *)
(* appears at a position < k, validation fails with the require-placement  *)
(* diagnostic.                                                             *)
C9_RequireFirst ==
    (comp.done /\ Parsed(comp)) =>
        \A k \in 1..Len(comp.script.cmds) :
            Misplaced(comp.script.cmds, k) =>
                /\ ValidationFailed(comp)
                /\ \E i \in 1..Len(comp.diags) :
                        comp.diags[i].kind = "require-placement"

(* C9 as amended: for every such script validation fails, and the          *)
(* require-placement diagnostic is reported for the first such require     *)
(* command when the validator has a command context for the command right  *)
(* before it.                                                              *)
C9_RequireFirstAfterKnown ==
    (comp.done /\ Parsed(comp)) =>
        \A k \in 1..Len(comp.script.cmds) :
            (/\ Misplaced(comp.script.cmds, k)
             /\ \A j \in 1..(k - 1) : ~Misplaced(comp.script.cmds, j)) =>
                /\ ValidationFailed(comp)
                /\ CommandContext(comp.script.cmds, k - 1) # NULL =>
                     \E i \in 1..Len(comp.diags) :
                        comp.diags[i] = PlacementDiag(comp, k)

C9_Witness ==
    /\ comp.done /\ Parsed(comp)
    /\ Len(comp.script.cmds) = 2
    /\ comp.script.cmds[1].name = "keep"
    /\ comp.script.cmds[2] = Require("string", <<"f">>)
    /\ SIEVE_EXT_ENABLED(reg, "fileinto")
    /\ ValidationFailed(comp)
    /\ comp.diags = <<PlacementDiag(comp, 2)>>

(* The extension registered under name has its id slot set to -1.          *)
RegisteredDisabled(R, name) ==
    /\ Lookup(R, name) # 0
    /\ R.exts[Lookup(R, name)].extension # NULL
    /\ HasIdSlot(R.exts[Lookup(R, name)].extension)
    /\ R.ids[R.exts[Lookup(R, name)].extension] = -1

RequiredNames(cmd) ==
    IF cmd.name = "require" /\ cmd.argtype \in {"string", "strlist"}
    THEN { cmd.args[i] : i \in 1..Len(cmd.args) } ELSE {}

(* C10: a script that requires an extension which is registered but        *)
(* disabled fails validation: the name lookup yields no extension,         *)
(* cmd_require_validate returns FALSE, and the compilation ends with error *)
(* NOT_VALID and no binary.                                                *)
C10_RequireDisabled ==
    (comp.done /\ Parsed(comp)) =>
        \A k \in 1..Len(comp.script.cmds) :
            \A n \in RequiredNames(comp.script.cmds[k]) :
                RegisteredDisabled(reg, n) =>
                    /\ sieve_extension_get_by_name(reg, n) = NULL
                    /\ ~cmd_require_validate(reg, comp.script.cmds[k], <<k>>,
                            TRUE, sieve_command_is_first(comp.script.cmds, k),
                            sieve_command_prev_context(comp.script.cmds, k)
                         ).result
                    /\ ValidationFailed(comp)

C10_Witness ==
    /\ comp.done /\ Parsed(comp)
    /\ comp.script.cmds = <<Require("string", <<"r">>)>>
    /\ RegisteredDisabled(reg, <<"r">>)
    /\ ValidationFailed(comp)
    /\ comp.diags = <<Diag("unknown-extension", <<1>>)>>

-----------------------------------------------------------------------------
(* Properties of the size test, checked under SpecSize.                    *)

(* A size operation has read its limit and the size of the message. *)
SizeExecuted == interp.ran.op # "none" /\ interp.ran.opr.ok /\ mail.ok

(* C11: for every message size s and limit N, SIZE-OVER sets the test      *)
(* register to s > N and SIZE-UNDER sets it to s < N; for s = N both yield *)
(* false, and the two are never both true.                                 *)
C11_SizeTest ==
    SizeExecuted =>
        LET s == mail.psize
            N == interp.ran.opr.value
            over == tst_size_opcode_execute(tst_size_over_opcode, mail,
                        InterpStart(TRUE), interp.ran.opr).test_result
            under == tst_size_opcode_execute(tst_size_under_opcode, mail,
                        InterpStart(TRUE), interp.ran.opr).test_result
        IN  /\ interp.ret
            /\ interp.ran.op = tst_size_over_opcode
                  => interp.test_result = (s > N)
            /\ interp.ran.op = tst_size_under_opcode
                  => interp.test_result = (s < N)
            /\ s = N => ~interp.test_result
            /\ over = (s > N) /\ under = (s < N)
            /\ ~(over /\ under)

(* SIZE-OVER on a message as large as the limit cleared a test register    *)
(* that was set.                                                           *)
C11_Witness ==
    /\ SizeExecuted
    /\ interp.ran.op = tst_size_over_opcode
    /\ mail.psize = interp.ran.opr.value
    /\ mail.psize > 0
    /\ interp.ret /\ ~interp.test_result

-----------------------------------------------------------------------------
(* Properties of the extension registry, checked under SpecRegistry.       *)

(* The registrations that have an extension. *)
Handled(R) == {i \in 1..Len(R.exts) : R.exts[i].extension # NULL}

(* C12: in every state reachable by sieve_extension_register,              *)
(* sieve_extension_require and sieve_extensions_set_string calls, every    *)
(* extension whose registration is marked required is enabled: the id it   *)
(* publishes is not -1.                                                    *)
C12_RequiredEnabled ==
    \A i \in Handled(reg) :
        (reg.exts[i].required /\ HasIdSlot(reg.exts[i].extension))
            => reg.ids[reg.exts[i].extension] # -1

sieve_preloaded_extensions == <<"comparator", "match_type", "address_part">>

(* The preloaded extensions hold the first three registrations and ids. *)
PreloadedLowest ==
    /\ Len(reg.exts) >= 3
    /\ \A n \in 1..3 :
          /\ reg.exts[n].extension = sieve_preloaded_extensions[n]
          /\ reg.exts[n].id = n - 1
          /\ reg.ids[sieve_preloaded_extensions[n]] = n - 1
    /\ \A i \in 4..Len(reg.exts) :
          /\ reg.exts[i].id > 2
          /\ reg.exts[i].extension \notin
                {sieve_preloaded_extensions[n] : n \in 1..3}
    /\ \A o \in ExtObjs :
          reg.ids[o] \in 0..2
            => \E n \in 1..3 : o = sieve_preloaded_extensions[n]

(* C13: after sieve_extensions_init the preloaded comparator, match-type   *)
(* and address-part extensions hold the ids 0, 1 and 2, lower than the id  *)
(* of every other registered extension, in every later state of the        *)
(* registry (until sieve_extensions_deinit frees it).                      *)
C13_PreloadedLowestIds == RegistryLive => PreloadedLowest

(* Two plugins were registered and a list without fileinto was set. *)
C13_Witness ==
    /\ Len(reg.exts) = Len(sieve_core_extensions) + 2
    /\ reg.ids["fileinto"] = -1
    /\ reg.ids["plugin"] > 2
    /\ reg.ids["address_part"] = 2

(* The registration at index i has id i (ids count from 0), and the id an  *)
(* extension publishes is the id of the registration under its name or -1. *)
DenseIds ==
    RegistryLive =>
        /\ \A i \in 1..Len(reg.exts) : reg.exts[i].id = i - 1
        /\ \A o \in ExtObjs :
              HasIdSlot(o) =>
                \/ reg.ids[o] = -1
                \/ /\ Lookup(reg, ExtName(o)) # 0
                   /\ reg.ids[o] = reg.exts[Lookup(reg, ExtName(o))].id

(* No step but the one that frees the registry changes the id or the name *)
(* of a registration or removes one.                                       *)
StableIds ==
    RegistryLive' =>
        /\ Len(reg'.exts) >= Len(reg.exts)
        /\ \A i \in 1..Len(reg.exts) :
              /\ reg'.exts[i].id = reg.exts[i].id
              /\ reg'.exts[i].key = reg.exts[i].key

(* C14: registry ids are dense and stable: the registration at array index *)
(* i has id i, the id of an extension never changes after its first        *)
(* registration, and the id published through an extension's _id slot is   *)
(* always that registry id (enabled) or -1 (disabled).                     *)
C14_DenseStableIds == []DenseIds /\ [][StableIds]_vars

(* A plugin was registered behind another, enabled and disabled again. *)
C14_Witness ==
    /\ Len(reg.exts) = Len(sieve_core_extensions) + 2
    /\ reg.exts[Len(reg.exts)].extension = "plugin"
    /\ reg.exts[Len(reg.exts)].loaded
    /\ reg.ids["plugin"] = -1
    /\ reg.ids["reject"] = 6

(* The registered extensions whose name begins with '@'. *)
HiddenExts ==
    { reg.exts[i].extension : i \in { j \in Handled(reg) :
            ExtName(reg.exts[j].extension)[1] = "@" } }

(* The names in a capability string. *)
ListedNames(str) ==
    IF str = <<>> THEN {}
    ELSE LET names == SplitNames(str, 1).names
         IN  { names[i] : i \in 1..Len(names) }

(* No hidden extension is in the capability string or found by its name.   *)
HiddenNotExposed ==
    \A s \in {sieve_extensions_get_string(reg)} :
        \A o \in HiddenExts :
            /\ ~s.crashes
                  => /\ ExtName(o) \notin ListedNames(s.str)
                     /\ \A i \in 1..Len(s.str) : s.str[i] # "@"
            /\ sieve_extension_get_by_name(reg, ExtName(o)) = NULL

(* A sieve_extensions_set_string call with a list that is not NULL leaves  *)
(* the id slot of every hidden extension as it was.                        *)
SetStringKeepsHidden ==
    \/ \A o \in HiddenExts : reg'.ids[o] = reg.ids[o]
    \/ ~\E l \in ExtLists \ {NullString} : SetStringCall(l)

(* C15: an extension whose name begins with '@' is never exposed: it is    *)
(* absent from sieve_extensions_get_string, sieve_extension_get_by_name    *)
(* returns NULL for its name, and sieve_extensions_set_string with a list  *)
(* that is not NULL neither enables nor disables it.                       *)
C15_HiddenNeverExposed == []HiddenNotExposed /\ [][SetStringKeepsHidden]_vars

(* A list that is not NULL was set: fileinto is disabled, the hidden       *)
(* comparator extension is still enabled and the capability string names   *)
(* the plugin only.                                                        *)
C15_Witness ==
    /\ ext_state = "up"
    /\ reg.ids["fileinto"] = -1
    /\ reg.ids["comparator"] = 0
    /\ sieve_extensions_get_string(reg) =
            [crashes |-> FALSE, str |-> <<"p">>]

RECURSIVE EnabledNames(_, _)
(* The names of the registrations from i on that are enabled and not       *)
(* hidden, in registration order.                                          *)
EnabledNames(R, i) ==
    IF i > Len(R.exts) THEN <<>>
    ELSE LET o == R.exts[i].extension
         IN  IF /\ o # NULL /\ HasIdSlot(o) /\ R.ids[o] >= 0
                /\ ExtName(o)[1] # "@"
             THEN <<ExtName(o)>> \o EnabledNames(R, i + 1)
             ELSE EnabledNames(R, i + 1)

(* C16: in every reachable state sieve_extensions_get_string returns the   *)
(* names of the registrations that are enabled and not hidden, each once,  *)
(* in registration order, separated by single spaces, with no leading or   *)
(* trailing space; the empty string when there is none.                    *)
C16_CapabilityString ==
    ext_state = "up" =>
        /\ ~sieve_extensions_get_string(reg).crashes
        /\ sieve_extensions_get_string(reg).str
              = JoinNames(EnabledNames(reg, 1))

(* C17 as stated: the load hook of each extension is invoked at most once. *)
C17_LoadOnce == \A o \in ExtObjs : reg.loads[o] <= 1

(* A step of a compilation: one of an instance that compiles next to the   *)
(* other and to the host.                                                  *)
CompileStep ==
    \E i \in Instances :
        \/ \E script \in ConcScripts : ThreadCompile(i, script)
        \/ ThreadLoad(i)
        \/ ThreadReturn(i)

(* A statement of a sieve_extension_require call of the host. *)
RequireStep == \E o \in ConcRequireObjs : HostRequire(o)

RequireWritesFlag ==
    \A o \in ConcRequireObjs :
        LET e == Lookup(reg, ExtName(o))
        IN  (HostRequire(o) /\ e # 0 /\ reg.exts[e].extension # NULL)
                => reg' \in {reg, [reg EXCEPT !.exts[e].required = TRUE]}

(* A sieve_extension_require call of the host that returns leaves the      *)
(* registry that the call leaves when it runs in one piece on the registry *)
(* it began on: no instance wrote the registry in between.                 *)
HostAgrees ==
    (RequireStep /\ host'.pc = "idle") =>
        \E R0 \in {IF host.pc = "idle" THEN reg ELSE host.R0},
           o \in {IF host.pc = "idle" THEN NULL ELSE host.o} :
            \/ o = NULL
            \/ reg' = sieve_extension_require(R0, o).R

(* An instance whose compilation returns without the registry having been  *)
(* written meanwhile has the outcome of a sieve_compile_script call that   *)
(* runs alone on the registry: the other instance made no difference.      *)
ThreadAgrees ==
    \A i \in Instances :
        (ThreadReturn(i) /\ ~inst[i].written) =>
            \E c \in {sieve_compile_script(reg, inst[i].script, TRUE)} :
                /\ inst'[i].sbin = c.sbin
                /\ inst'[i].error = c.error
                /\ inst'[i].diags = c.diags
                /\ c.R = reg

(* The lookup of an instance ends the process with SIGSEGV exactly when it *)
(* finds a registration whose extension object is not stored yet, or may   *)
(* do so when it runs into the hash_table_insert of the host.              *)
ThreadCrash ==
    \A i \in Instances :
        ThreadLoad(i) =>
            LET e == Lookup(reg, inst[i].script.cmds[1].args[inst[i].pos])
                null == e # 0 /\ reg.exts[e].extension = NULL
            IN  /\ null => ext_state' = "crashed"
                /\ ext_state' = "crashed" => null \/ host.pc = "insert"

Emitted == { i \in 1..Len(ap.emitted) : ap.emitted[i].ok }

(* C19: the operand of an address-part of an extension holds the byte      *)
(* SIEVE_ADDRESS_PART_CUSTOM plus the index of the extension in the        *)
(* extension-dependency table of the binary, followed by the sub-code      *)
(* byte iff the extension provides several address-parts; the operand of   *)
(* a core address-part holds one byte below SIEVE_ADDRESS_PART_CUSTOM      *)
(* that indexes the core table.                                            *)
C19_OperandEncoding ==
    \A i \in Emitted :
        LET g == ap.emitted[i]
            addrp == g.arg.context
            code == binary.data[g.at + 2]
        IN  /\ binary.data[g.at + 1] = SIEVE_OPERAND_ADDRESS_PART
            /\ addrp.extension # NULL =>
                /\ code = SIEVE_ADDRESS_PART_CUSTOM
                          + sieve_binary_extension_get_index(binary,
                                                             g.arg.ext_id)
                /\ code # SIEVE_ADDRESS_PART_CUSTOM + g.arg.ext_id
                /\ (g.end = g.at + 3)
                       <=> ExtAddressPart(addrp.extension) = NoAddressPart
                /\ (g.end # g.at + 3) => g.end = g.at + 2
                /\ (g.end = g.at + 3)
                       => binary.data[g.at + 3] = addrp.ext_code
            /\ addrp.extension = NULL =>
                /\ code < SIEVE_ADDRESS_PART_CUSTOM
                /\ code < sieve_core_address_parts_count
                /\ sieve_core_address_parts[code + 1] = addrp
                /\ g.end = g.at + 2

(* C20: an operand that tag_address_part_generate emitted is read back by  *)
(* sieve_opr_address_part_read at its offset as the address-part that was  *)
(* emitted, and the address is advanced by the number of bytes emitted.    *)
C20_OperandRoundTrip ==
    \A i \in Emitted :
        (ap.read.done /\ ap.read.at = ap.emitted[i].at)
            => /\ ap.read.addrp = ap.emitted[i].arg.context
               /\ ap.read.address = ap.emitted[i].end

(* C26: sieve_extensions_set_string terminates for every string: no call   *)
(* stays in the loop that splits the string into names.                    *)
C26_SetStringTerminates == ext_state # "hung"

(* C27: the discard script is run at most once in a multiscript session:   *)
(* sieve_multiscript_run_discard never reaches i_assert(!discard_handled)  *)
(* with discard_handled set.                                               *)
C27_DiscardOnce == phase # "panic"

(* C28: sieve_multiscript_run returns TRUE iff after the call the chain is *)
(* active, the status is SIEVE_EXEC_OK and keep is TRUE, and then it ran   *)
(* the binary; whenever it returns FALSE the chain is inactive.            *)
C28_RunReturnsActive ==
    [][ CallStep("run") =>
          /\ last'.retb <=> /\ mscript'.active
                            /\ mscript'.status > 0
                            /\ mscript'.keep
          /\ last'.retb => /\ calls'[Len(calls')].ran
                           /\ mscript'.status = SIEVE_EXEC_OK
          /\ ~last'.retb => ~mscript'.active ]_vars

(* A second script was run and left keep in effect: the call returned      *)
(* TRUE; both scripts ran and something was delivered.                     *)
C28_Witness ==
    /\ phase = "ms"
    /\ ~mscript.teststream
    /\ Len(calls) = 2
    /\ calls[1].op = "run" /\ calls[1].ran
    /\ calls[2].op = "run" /\ calls[2].ran
    /\ last.op = "run" /\ last.retb
    /\ mscript.active /\ mscript.keep
    /\ Len(delivered) >= 1

(* The step is a sieve_extension_register (with load) or                   *)
(* sieve_extension_require call that invoked the load hook of o, and the   *)
(* hook failed.                                                            *)
LoadFailedStep(o) ==
    /\ \/ RegisterCall(o, TRUE)
       \/ o \in RequireObjs /\ RequireCall(o)
    /\ reg'.loads[o] = reg.loads[o] + 1
    /\ ~LoadOk(o)

(* C29: a sieve_extension_register or sieve_extension_require call whose   *)
(* load hook fails leaves the registrations and the id slots as they were  *)
(* before the call, no registration without extension remains in any       *)
(* state, and no later call dereferences one.                              *)
C29_FailedLoadRolledBack ==
    /\ [](~NoHandler(reg) /\ ext_state # "crashed")
    /\ [][\A o \in RegisterObjs \cup RequireObjs :
            LoadFailedStep(o) => /\ reg'.exts = reg.exts
                                 /\ reg'.ids = reg.ids]_vars

(* The session is one in test mode: a multiscript session started with    *)
(* sieve_multiscript_start_test, or a sieve_test call.                     *)
TestMode ==
    \/ phase \in {"ms", "done", "panic"} /\ mscript.teststream
    \/ phase = "done" /\ calls[1].op = "test"

(* Nothing was delivered and the result records no delivery. *)
NoDelivery ==
    /\ delivered = <<>>
    /\ ~result.executed_delivery

(* A run or run_discard call in test mode that ran its binary leaves the   *)
(* result as the script left it, marked executed when the status is >= 0.  *)
TestRunPrintsOnly ==
    \A op \in {"run", "run_discard"} :
        (CallStep(op) /\ mscript.teststream /\ calls'[Len(calls')].ran) =>
            LET bin == calls'[Len(calls')].bin
                res0 == IF op = "run" THEN result
                        ELSE sieve_result_set_keep_action(result, "store")
                r == sieve_run(bin, res0)
            IN  result' = IF r.ret >= 0
                          THEN sieve_result_mark_executed(r.result)
                          ELSE r.result

(* A tempfail or finish call in test mode changes nothing of the result    *)
(* but its keep action, and attempts no implicit keep.                     *)
TestEndKeepsResult ==
    \A op \in {"tempfail", "finish"} :
        (CallStep(op) /\ mscript.teststream) =>
            /\ result' = sieve_result_set_keep_action(result, "store")
            /\ ~last'.kept

(* sieve_test leaves the result as the script left it: nothing of it is    *)
(* executed.                                                               *)
TestLeavesResult ==
    (phase = "done" /\ calls[1].op = "test") =>
        /\ result = sieve_run(calls[1].bin, sieve_result_create).result
        /\ ~result.executed
        /\ result.done = 0

(* C30: test mode has no delivery side effects: in a session started with  *)
(* sieve_multiscript_start_test no run, run_discard, tempfail or finish    *)
(* call executes the result or an implicit keep (the result is printed and *)
(* marked executed only), and sieve_test only prints the result.           *)
C30_TestModeNoDelivery ==
    /\ [](TestMode => NoDelivery)
    /\ []TestLeavesResult
    /\ [][TestRunPrintsOnly /\ TestEndKeepsResult]_vars

(* A test session ran a script that files into a folder, ran the discard   *)
(* script after it and was finished; nothing was delivered.                *)
C30_Witness ==
    /\ phase = "done"
    /\ mscript.teststream
    /\ Len(calls) = 3
    /\ calls[1].op = "run" /\ calls[1].ran
    /\ calls[1].bin.acts = <<ActFileinto("A")>>
    /\ calls[2].op = "run_discard"
    /\ calls[3].op = "finish"
    /\ result.executed
    /\ delivered = <<>>

(***************************************************************************)
(* Address matching and the optional operands of an address test.          *)
(***************************************************************************)

(* The decoding of the trailer ended on an option code no address test     *)
(* knows.                                                                  *)
EndsOnUnknown(codes) ==
    /\ codes # <<>>
    /\ codes[Len(codes)] \notin {SIEVE_AM_OPT_END, SIEVE_AM_OPT_COMPARATOR,
                                 SIEVE_AM_OPT_MATCH_TYPE,
                                 SIEVE_AM_OPT_ADDRESS_PART}

(* A decoding that succeeded on a trailer read every option of it and      *)
(* nothing after the first code 0: the codes before the last are options   *)
(* of three bytes each, the last code is 0 and is the byte before the      *)
(* address.                                                                *)
StopsAtTerminator(d) ==
    (d.ok /\ d.out.codes # <<>>) =>
        /\ d.out.codes[Len(d.out.codes)] = SIEVE_AM_OPT_END
        /\ \A i \in 1..(Len(d.out.codes) - 1) :
                d.out.codes[i] \in {SIEVE_AM_OPT_COMPARATOR,
                                    SIEVE_AM_OPT_MATCH_TYPE,
                                    SIEVE_AM_OPT_ADDRESS_PART}
        /\ d.address = 1 + 3 * (Len(d.out.codes) - 1) + 1
        /\ binary.data[d.address] = SIEVE_AM_OPT_END
        /\ \A i \in 1..(Len(d.out.codes) - 1) :
                binary.data[1 + 3 * (i - 1) + 1] = d.out.codes[i]

(* C21: when the optional-operand trailer holds a code other than 0,       *)
(* comparator, match-type and address-part,                                *)
(* sieve_addrmatch_default_get_optionals and                               *)
(* sieve_addrmatch_default_dump_optionals fail at that code instead of     *)
(* skipping it, and the decoding of a well-formed trailer stops exactly at *)
(* code 0.                                                                 *)
C21_UnknownOptionFails ==
    /\ opt.get.done =>
        /\ \A i \in 1..Len(opt.get.out.codes) :
              EndsOnUnknown(SubSeq(opt.get.out.codes, 1, i))
                  => i = Len(opt.get.out.codes) /\ ~opt.get.ok
        /\ StopsAtTerminator(opt.get)
    /\ opt.dump.done =>
        /\ \A i \in 1..Len(opt.dump.out.codes) :
              EndsOnUnknown(SubSeq(opt.dump.out.codes, 1, i))
                  => i = Len(opt.dump.out.codes) /\ ~opt.dump.ok
        /\ StopsAtTerminator(opt.dump)

(* Both decoders have failed on an unknown code that follows a well-formed *)
(* option, in a trailer that goes on after the unknown code.               *)
C21_Witness ==
    /\ opt.get.done /\ opt.dump.done
    /\ ~opt.get.ok /\ ~opt.dump.ok
    /\ Len(opt.get.out.codes) = 2 /\ EndsOnUnknown(opt.get.out.codes)
    /\ opt.dump.out.codes = opt.get.out.codes
    /\ Len(binary.data) > opt.get.address
    /\ opt.get.address = opt.dump.address

(* The address whose part entry j of am.parts is. *)
PartOf(j) == am.data[am.evaluated[j]]

(* The part is the mailbox, an at sign, the domain. *)
IsMailboxAtDomain(part, a) ==
    /\ Len(part) = Len(a.mailbox) + 1 + Len(a.domain)
    /\ SubSeq(part, 1, Len(a.mailbox)) = a.mailbox
    /\ part[Len(a.mailbox) + 1] = "@"
    /\ SubSeq(part, Len(a.mailbox) + 2, Len(part)) = a.domain

(* The test `address :localpart :is "to" "alice"` on the header            *)
(* `To: Alice <alice@example.org>`, with either comparator.                *)
AliceExample ==
    /\ am.done
    /\ am.addrp = local_address_part
    /\ am.mctx.match_type = "is"
    /\ am.mctx.key_list = <<s_alice>>
    /\ am.data = <<MessageAddress(s_Alice, s_alice, s_example_org)>>

(* C22: for every parsed address the core address-part all selects         *)
(* mailbox@domain, localpart selects the mailbox and domain selects the    *)
(* domain, so that `address :localpart :is "to" "alice"` matches the       *)
(* header `To: Alice <alice@example.org>`.                                 *)
C22_CoreAddressParts ==
    /\ am.done =>
        /\ Len(am.parts) = Len(am.evaluated)
        /\ \A j \in 1..Len(am.parts) :
              CASE am.addrp = sieve_core_address_parts[
                                    SIEVE_ADDRESS_PART_ALL + 1] ->
                        /\ am.addrp.identifier = "all"
                        /\ IsMailboxAtDomain(am.parts[j], PartOf(j))
                [] am.addrp = sieve_core_address_parts[
                                    SIEVE_ADDRESS_PART_LOCAL + 1] ->
                        /\ am.addrp.identifier = "localpart"
                        /\ am.parts[j] = PartOf(j).mailbox
                [] am.addrp = sieve_core_address_parts[
                                    SIEVE_ADDRESS_PART_DOMAIN + 1] ->
                        /\ am.addrp.identifier = "domain"
                        /\ am.parts[j] = PartOf(j).domain
                [] OTHER -> FALSE
    /\ AliceExample => am.matched

(* The example test has matched, on the mailbox alice. *)
C22_Witness ==
    /\ AliceExample
    /\ am.mctx.comparator = "i;ascii-casemap"
    /\ am.matched
    /\ am.parts = <<s_alice>>

(* The addresses of the list that have a domain and yield a part for which *)
(* sieve_match_value is true.                                              *)
MatchingAddresses ==
    {i \in 1..Len(am.data) :
        /\ am.data[i].domain # NullString
        /\ extract_from(am.addrp, am.data[i]) # NullString
        /\ sieve_match_value(am.mctx, extract_from(am.addrp, am.data[i]))}

(* The addresses to try: those with a domain, up to the first that         *)
(* matches.                                                                *)
AddressesToTry ==
    {i \in 1..Len(am.data) :
        /\ am.data[i].domain # NullString
        /\ \A k \in MatchingAddresses : i <= k}

(* C23: sieve_address_match returns true iff at least one address of the   *)
(* parsed list that has a domain yields a part for which sieve_match_value *)
(* is true; the addresses are tried in list order, none after the first    *)
(* match is evaluated, and those without a domain are skipped.             *)
C23_AddressMatch ==
    am.done =>
        /\ am.matched <=> MatchingAddresses # {}
        /\ Len(am.evaluated) = Cardinality(AddressesToTry)
        /\ \A j \in 1..Len(am.evaluated) : am.evaluated[j] \in AddressesToTry
        /\ \A j, k \in 1..Len(am.evaluated) :
                j < k => am.evaluated[j] < am.evaluated[k]

(* The first of two addresses has matched and the second was not           *)
(* evaluated, though it has a domain.                                      *)
C23_Witness ==
    /\ am.done /\ am.matched
    /\ Len(am.data) = 2
    /\ am.data[2].domain # NullString
    /\ am.evaluated = <<1>>

(* The stored binary of the script opened is not up to date. *)
StoredStale ==
    /\ os.done
    /\ os.script.stored # NoSbin
    /\ ~sieve_binary_up_to_date(os.script.stored, os.script)

(* C24: sieve_open_script never returns a stored binary that is not up to  *)
(* date with its source: whenever the loaded binary fails                  *)
(* sieve_binary_up_to_date it is closed and the script is compiled again,  *)
(* whatever resource usage the binary records.                             *)
C24_StaleBinaryRecompiled ==
    StoredStale =>
        /\ os.sbin.origin # "stored"
        /\ os.compiled
        /\ os.closed # <<>> /\ os.closed[1] = os.script.stored

(* No option of the trailer decoded has the code. *)
NoOption(code) ==
    \A i \in 1..Len(opt.get.out.codes) : opt.get.out.codes[i] # code

(* The optional operands decoded from the same code with a comparator      *)
(* option for i;ascii-casemap put in.                                      *)
WithExplicitComparator ==
    sieve_addrmatch_default_get_optionals(
        [binary EXCEPT !.data = WithComparatorOption(@)], 0,
        opt.get.given.addrp, opt.get.given.mtch, opt.get.given.cmp)

(* C25: sieve_addrmatch_default_get_optionals overwrites only the outputs  *)
(* whose option code occurs in the trailer: without a trailer or without   *)
(* a comparator option *cmp keeps the caller's default, so that with the   *)
(* default i;ascii-casemap the test gets the operands it gets with an      *)
(* explicit `:comparator "i;ascii-casemap"`; likewise *mtch and *addrp are *)
(* left as they were when their codes are absent.                          *)
C25_DefaultsKept ==
    opt.get.done =>
        /\ NoOption(SIEVE_AM_OPT_COMPARATOR)
              => opt.get.out.cmp = opt.get.given.cmp
        /\ NoOption(SIEVE_AM_OPT_MATCH_TYPE)
              => opt.get.out.mtch = opt.get.given.mtch
        /\ NoOption(SIEVE_AM_OPT_ADDRESS_PART)
              => opt.get.out.addrp = opt.get.given.addrp
        /\ (/\ opt.get.ok
            /\ NoOption(SIEVE_AM_OPT_COMPARATOR)
            /\ opt.get.given.cmp = "i;ascii-casemap")
              => /\ WithExplicitComparator.ok
                 /\ WithExplicitComparator.out.cmp = opt.get.out.cmp
                 /\ WithExplicitComparator.out.mtch = opt.get.out.mtch
                 /\ WithExplicitComparator.out.addrp = opt.get.out.addrp

(* A trailer with a match-type option and no comparator option was         *)
(* decoded: the match type is the one of the option, the comparator is the *)
(* default i;ascii-casemap.                                                *)
C25_Witness ==
    /\ opt.get.done /\ opt.get.ok
    /\ opt.get.out.codes = <<SIEVE_AM_OPT_MATCH_TYPE, SIEVE_AM_OPT_END>>
    /\ opt.get.given.cmp = "i;ascii-casemap"
    /\ opt.get.out.cmp = "i;ascii-casemap"
    /\ opt.get.out.mtch # opt.get.given.mtch
    /\ opt.get.out.addrp = opt.get.given.addrp

(***************************************************************************)
(* The end of a chain of scripts.                                          *)
(***************************************************************************)

(* The call has added one implicit keep to what was delivered. *)
OneImplicitKeep ==
    /\ Len(delivered') = Len(delivered) + 1
    /\ SubSeq(delivered', 1, Len(delivered)) = delivered
    /\ delivered'[Len(delivered')].implicit

(* C31: sieve_multiscript_finish on an active chain outside test mode      *)
(* performs exactly one implicit keep and returns the stored status if the *)
(* keep succeeds, TEMP_FAILURE if the keep fails temporarily and no part   *)
(* of the result was executed, and KEEP_FAILED otherwise; on an inactive   *)
(* chain it performs no implicit keep and returns the stored status; in    *)
(* all cases sieve_result_finish is told success iff the value returned is *)
(* OK.                                                                     *)
C31_FinishKeep ==
    [][ \A k \in Outcomes : FinishCall(k) =>
          /\ (mscript.active /\ ~mscript.teststream)
                => /\ OneImplicitKeep
                   /\ delivered'[Len(delivered')].ok <=> k = "ok"
                   /\ last'.reti =
                        IF k = "ok" THEN mscript.status
                        ELSE IF k = "temp" /\ ~result.executed
                        THEN SIEVE_EXEC_TEMP_FAILURE
                        ELSE SIEVE_EXEC_KEEP_FAILED
          /\ ~mscript.active
                => /\ delivered' = delivered
                   /\ last'.reti = mscript.status
          /\ last'.success <=> last'.reti = SIEVE_EXEC_OK ]_vars

(* A chain was finished whose implicit keep failed temporarily after a     *)
(* part of the result was executed.                                        *)
C31_Witness ==
    /\ phase = "done" /\ last.op = "finish" /\ last.kept
    /\ last.reti = SIEVE_EXEC_KEEP_FAILED
    /\ ~last.success
    /\ Len(delivered) > 1
    /\ delivered[1].ok /\ ~delivered[Len(delivered)].ok

(***************************************************************************)
(* The code byte of an extension address-part.                             *)
(***************************************************************************)

(* C32: for every index of the extension-dependency table that             *)
(* sieve_binary_extension_get_index returns for an extension address-part, *)
(* opr_address_part_emit_ext writes a code byte that is at least           *)
(* SIEVE_ADDRESS_PART_CUSTOM and that the reader maps back to the same     *)
(* index: the sum of SIEVE_ADDRESS_PART_CUSTOM and the index does not wrap *)
(* the unsigned char, and no byte is emitted that is read as the code of a *)
(* core address-part.                                                      *)
C32_ExtCodeNoWrap ==
    \A i \in Emitted :
        LET g == ap.emitted[i]
            byte == binary.data[g.at + 2]
            index == sieve_binary_extension_get_index(binary, g.arg.ext_id)
        IN  g.arg.context.extension # NULL =>
                /\ SIEVE_ADDRESS_PART_CUSTOM + index < UCharValues
                /\ byte >= SIEVE_ADDRESS_PART_CUSTOM
                /\ byte - SIEVE_ADDRESS_PART_CUSTOM = index
                /\ sieve_binary_extension_get_by_index(
                        binary, byte - SIEVE_ADDRESS_PART_CUSTOM).ext_id
                     = g.arg.ext_id

(***************************************************************************)
(* The list of enabled extensions.                                         *)
(***************************************************************************)

(* The name is an entry of the space-separated list. *)
OccursIn(name, list) ==
    \E a \in 1..Len(list) :
        LET b == a + Len(name) - 1
        IN  /\ b <= Len(list)
            /\ SubSeq(list, a, b) = name
            /\ a = 1 \/ list[a - 1] = " "
            /\ b = Len(list) \/ list[b + 1] = " "

(* The name is the name of a registration that is not hidden. *)
NamesRegistered(name) == name[1] # "@" /\ Lookup(reg, name) # 0

(* The list without the entries that name no registered extension. *)
KnownEntries(list) ==
    JoinNames(SelectSeq(SplitNames(list, 1).names, NamesRegistered))

(* What holds when sieve_extensions_set_string returns for the list: the   *)
(* extensions that are not hidden and have an id slot are enabled iff      *)
(* named or required, or all are enabled for NULL; the entries that name   *)
(* no registered extension make no difference.                             *)
SetStringEnables(list) ==
    LET r == sieve_extensions_set_string(reg, list)
        known == KnownEntries(list)
    IN  (~r.hangs /\ ~r.crashes) =>
        /\ Len(r.R.exts) = Len(reg.exts)
        /\ \A e \in 1..Len(reg.exts) :
            LET o == reg.exts[e].extension
            IN  /\ r.R.exts[e].extension = o
                /\ r.R.exts[e].required = reg.exts[e].required
                /\ HasIdSlot(o) =>
                    IF list = NullString THEN r.R.ids[o] = reg.exts[e].id
                    ELSE IF ExtName(o)[1] = "@"
                    THEN r.R.ids[o] = reg.ids[o]
                    ELSE (r.R.ids[o] >= 0)
                            <=> \/ OccursIn(ExtName(o), list)
                                \/ reg.exts[e].required
        /\ (list # NullString /\ known # <<>> /\ known # list)
              => r.R.ids = sieve_extensions_set_string(reg, known).R.ids

(* C33: after sieve_extensions_set_string with a list that is not NULL,    *)
(* every extension that is not hidden and has an id slot is enabled iff    *)
(* its name occurs in the list or it is marked required; the entries that  *)
(* name no registered extension, those written +name or -name included,    *)
(* are ignored and change the outcome for no other name; a NULL list       *)
(* enables every registered extension. Stated of the call in every state   *)
(* of the registry in which it can be made (a compilation outcome that is  *)
(* still held changes nothing in the registry).                            *)
C33_SetStringEnables ==
    (ext_state = "up" /\ ~comp.done)
        => \A list \in ExtLists : SetStringEnables(list)

(* The list named neither fileinto nor reject: fileinto is disabled,       *)
(* reject is enabled because it is required, the plugin because it was     *)
(* named.                                                                  *)
C33_Witness ==
    /\ ext_state = "up"
    /\ reg.ids["fileinto"] = -1
    /\ reg.ids["reject"] >= 0
    /\ reg.exts[Lookup(reg, ExtName("reject"))].required
    /\ reg.ids["plugin"] >= 0
    /\ ~reg.exts[Lookup(reg, ExtName("plugin"))].required

-----------------------------------------------------------------------------
(* The require command's validation, seen in the outcome of a compilation. *)

(* The number of diagnostics of a kind given at a command. *)
DiagsAt(kind, at) ==
    Cardinality({ j \in 1..Len(comp.diags) : comp.diags[j] = Diag(kind, at) })

(* The items of a require command that name no extension to load. *)
FailedItems(cmd) ==
    { j \in 1..Len(cmd.args) :
        sieve_extension_get_by_name(reg, cmd.args[j]) = NULL }

(* The top-level require commands of the compiled script that pass the     *)
(* placement test.                                                         *)
PlacedRequires ==
    { i \in 1..Len(comp.script.cmds) :
        /\ comp.script.cmds[i].name = "require"
        /\ RequirePlaced(TRUE, sieve_command_is_first(comp.script.cmds, i),
                         sieve_command_prev_context(comp.script.cmds, i)) }

ValidatorRan == comp.done /\ Len(comp.stages) >= 2

(* C34: cmd_require_validate tries to load every extension its argument    *)
(* names, the single string or each item of the string list, also after an *)
(* earlier item failed (each failed item gets its own error), and succeeds *)
(* iff every load succeeded; an argument that is neither a string nor a    *)
(* string list is rejected with one error.                                 *)
C34_RequireLoadsAll ==
    ValidatorRan =>
        /\ \A i \in PlacedRequires :
              LET cmd == comp.script.cmds[i]
              IN  IF cmd.argtype \in {"string", "strlist"}
                  THEN /\ DiagsAt("unknown-extension", <<i>>)
                            = Cardinality(FailedItems(cmd))
                       /\ DiagsAt("require-argument", <<i>>) = 0
                       /\ FailedItems(cmd) # {} => Len(comp.stages) = 2
                  ELSE /\ DiagsAt("unknown-extension", <<i>>) = 0
                       /\ DiagsAt("require-argument", <<i>>) = 1
                       /\ Len(comp.stages) = 2
        /\ ( \A i \in 1..Len(comp.script.cmds) :
                /\ i \in PlacedRequires
                /\ comp.script.cmds[i].argtype \in {"string", "strlist"}
                /\ FailedItems(comp.script.cmds[i]) = {} )
           => Len(comp.stages) = 3

(* A string list whose first and second item both fail was validated, and  *)
(* so was a require with a number.                                         *)
C34_Witness ==
    /\ ValidatorRan
    /\ \E i \in PlacedRequires :
          /\ comp.script.cmds[i].argtype = "strlist"
          /\ FailedItems(comp.script.cmds[i]) = {1, 2}
    /\ \E i \in PlacedRequires : comp.script.cmds[i].argtype = "number"

-----------------------------------------------------------------------------
(* The size test in the validator and the generator, checked under         *)
(* SpecSize.                                                               *)

TagsOf(args) == SelectSeq(args, LAMBDA a : a.type = SAAT_TAG)
PositionalsOf(args) == SelectSeq(args, LAMBDA a : a.type # SAAT_TAG)

(* C35: a size test is valid iff it has exactly one of the tags :over and  *)
(* :under and its one other argument is a number; what is generated has a  *)
(* discriminator that is assigned, and the opcode is SIZE-OVER for :over   *)
(* and SIZE-UNDER for :under.                                              *)
C35_SizeTagRequired ==
    sz.done =>
        /\ sz.valid <=>
              /\ Len(TagsOf(sz.args)) = 1
              /\ Len(PositionalsOf(sz.args)) = 1
              /\ PositionalsOf(sz.args)[1].type = SAAT_NUMBER
        /\ sz.emitted # "none" <=> sz.valid
        /\ sz.valid =>
              /\ sz.type # SIZE_UNASSIGNED
              /\ sz.emitted = tst_size_over_opcode
                    <=> TagsOf(sz.args) = <<size_over_tag>>
              /\ sz.emitted = tst_size_under_opcode
                    <=> TagsOf(sz.args) = <<size_under_tag>>

(* A size test without a tag was validated. *)
C35_Witness ==
    /\ sz.done
    /\ TagsOf(sz.args) = <<>>
    /\ Len(sz.args) = 1
    /\ sz.args[1].type = SAAT_NUMBER
    /\ ~sz.valid

-----------------------------------------------------------------------------
(* Reading address-part operands of any binary, checked under              *)
(* SpecAddrpRead.                                                          *)

(* The byte of the binary at an address; -1 behind the end. *)
ByteAt(address) ==
    IF address < Len(binary.data) THEN binary.data[address + 1] ELSE -1

(* The operand at the address is not of the address-part class. *)
NotAddressPartClass(at) == ByteAt(at) # SIEVE_OPERAND_ADDRESS_PART

(* The code after the operand code is a core code outside the core table. *)
CoreCodeOutside(at) ==
    /\ ByteAt(at + 1) >= sieve_core_address_parts_count
    /\ ByteAt(at + 1) < SIEVE_ADDRESS_PART_CUSTOM

(* The code names an index the extension-dependency table does not have. *)
IndexNotLinked(at) ==
    /\ ByteAt(at + 1) >= SIEVE_ADDRESS_PART_CUSTOM
    /\ ByteAt(at + 1) - SIEVE_ADDRESS_PART_CUSTOM >= Len(binary.extensions)

(* The extension the code names. *)
NamedExtension(at) ==
    binary.extensions[ByteAt(at + 1) - SIEVE_ADDRESS_PART_CUSTOM + 1]

(* The extension the code names has set no address-part extension object. *)
NotRegistered(at) ==
    /\ ByteAt(at + 1) >= SIEVE_ADDRESS_PART_CUSTOM
    /\ ~IndexNotLinked(at)
    /\ \A o \in binary.objects : o.ext_id # NamedExtension(at)

(* C36: sieve_opr_address_part_read returns NULL when the operand is not   *)
(* of the address-part class, when a core code lies outside the core       *)
(* table, when the extension index is not in the dependency table of the   *)
(* binary and when that extension has no address-part registration; an     *)
(* address-part it returns is the core one of the code or one of the       *)
(* extension the code names.                                               *)
C36_ReadFailsSafe ==
    ap.read.done =>
        LET at == ap.read.at
        IN  /\ ( \/ NotAddressPartClass(at)
                 \/ CoreCodeOutside(at)
                 \/ IndexNotLinked(at)
                 \/ NotRegistered(at) )
               => ap.read.addrp = NoAddressPart
            /\ ap.read.addrp # NoAddressPart
               => IF ByteAt(at + 1) < SIEVE_ADDRESS_PART_CUSTOM
                  THEN ap.read.addrp
                        = sieve_core_address_parts[ByteAt(at + 1) + 1]
                  ELSE \E o \in binary.objects :
                        /\ o.ext_id = NamedExtension(at)
                        /\ ap.read.addrp.extension = o.ext

(* A read of an extension's code whose extension is in the table but has   *)
(* no registration.                                                        *)
C36_Witness ==
    /\ ap.read.done
    /\ ~NotAddressPartClass(ap.read.at)
    /\ NotRegistered(ap.read.at)
    /\ NamedExtension(ap.read.at) = AddrpExtId("single")
    /\ ap.read.addrp = NoAddressPart

-----------------------------------------------------------------------------
(* Names in the registry, checked under SpecRegistry.                      *)

(* No two registrations have the same name. *)
UniqueNames ==
    \A i, j \in 1..Len(reg.exts) :
        reg.exts[i].key = reg.exts[j].key => i = j

(* The registration of the name has an extension object. *)
HasHandler(name) ==
    Lookup(reg, name) # 0 /\ reg.exts[Lookup(reg, name)].extension # NULL

(* The deprecated imapflags object, registered behind imap4flags under the *)
(* same name, is the extension of no registration and is returned by no    *)
(* lookup by name.                                                         *)
FirstObjectKept ==
    RegistryLive =>
    /\ \A e \in 1..Len(reg.exts) : reg.exts[e].extension # "imapflags"
    /\ reg.exts[Lookup(reg, ExtName("imapflags"))].extension = "imap4flags"
    /\ sieve_extension_get_by_name_any(reg, ExtName("imapflags"))
          = "imap4flags"
    /\ sieve_extension_get_by_name(reg, ExtName("imapflags"))
          \in {"imap4flags", NULL}

(* C37: names are unique in the registry and the first registration wins:  *)
(* sieve_extension_register of an extension whose name is registered with  *)
(* an extension object returns the id of that registration and changes     *)
(* nothing (no registration is added, no load hook is called, the          *)
(* extension object stays), sieve_extension_require changes the required   *)
(* mark only, and of imap4flags and imapflags only imap4flags is ever      *)
(* returned by a lookup.                                                   *)
C37_FirstRegistrationWins ==
    /\ [](UniqueNames /\ FirstObjectKept)
    /\ [][ /\ \A o \in RegisterObjs, load \in BOOLEAN :
                (RegisterCall(o, load) /\ HasHandler(ExtName(o)))
                => /\ reg' = reg
                   /\ sieve_extension_register(reg, o, load).ret
                        = reg.exts[Lookup(reg, ExtName(o))].id
           /\ \A o \in RequireObjs :
                (RequireCall(o) /\ HasHandler(ExtName(o)))
                => /\ reg'.loads = reg.loads
                   /\ reg'.ids = reg.ids
                   /\ Len(reg'.exts) = Len(reg.exts)
                   /\ \A e \in 1..Len(reg.exts) :
                        /\ reg'.exts[e].extension = reg.exts[e].extension
                        /\ reg'.exts[e].id = reg.exts[e].id
                        /\ reg'.exts[e].key = reg.exts[e].key
                   /\ sieve_extension_require(reg, o).ret
                        = reg.exts[Lookup(reg, ExtName(o))].id ]_vars

(* The plugin is registered with its extension object and disabled, and    *)
(* the imapflags object has been given to sieve_extension_register: its    *)
(* load hook was never called.                                             *)
C37_Witness ==
    /\ ext_state = "up"
    /\ HasHandler(ExtName("plugin"))
    /\ reg.ids["plugin"] = -1
    /\ reg.loads["imapflags"] = 0
    /\ reg.loads["imap4flags"] = 1
    /\ reg.ids["imapflags"] = -1

-----------------------------------------------------------------------------
(* The dumper and the interpreter on the same trailer, checked under       *)
(* SpecOptionals.                                                          *)

BothDecoded == opt.get.done /\ opt.dump.done

(* C38: on the same code sieve_addrmatch_default_dump_optionals and        *)
(* sieve_addrmatch_default_get_optionals succeed or fail together, and     *)
(* when they succeed they end at the same address and have read the same   *)
(* option codes in the same order.                                         *)
C38_DumpAgreesWithGet ==
    BothDecoded =>
        /\ opt.get.ok <=> opt.dump.ok
        /\ opt.get.ok =>
              /\ opt.get.address = opt.dump.address
              /\ opt.get.out.codes = opt.dump.out.codes

(* Both have decoded, to its end, a trailer of a match-type option, a      *)
(* second option and the terminator.                                       *)
C38_Witness ==
    /\ BothDecoded
    /\ opt.get.ok
    /\ Len(opt.dump.out.codes) = 3
    /\ opt.dump.out.codes[1] = SIEVE_AM_OPT_MATCH_TYPE
    /\ opt.dump.address = Len(binary.data)

-----------------------------------------------------------------------------
(* Resource usage, checked under SpecUsage.                                *)

(* min(UINT_MAX, a + b): the sum of the halves with its carries. *)
SaturatedSum(a, b) ==
    LET lo == a.lo + b.lo
        hi == a.hi + b.hi + (lo \div UIntHalf)
    IN  IF hi >= UIntHalf THEN UINT_MAX
        ELSE [hi |-> hi, lo |-> lo % UIntHalf]

(* C39: sieve_resource_usage_add leaves min(UINT_MAX, dst + src) in dst,   *)
(* so the usage never gets smaller by an addition, and a usage that is     *)
(* excessive for a limit is excessive for it after the addition.           *)
C39_UsageSaturates ==
    ru.adds > 0 =>
        /\ ru.dst.cpu_time_msecs
              = SaturatedSum(ru.before.cpu_time_msecs, ru.src.cpu_time_msecs)
        /\ ~UIntLess(ru.dst.cpu_time_msecs, ru.before.cpu_time_msecs)
        /\ ~UIntLess(ru.dst.cpu_time_msecs, ru.src.cpu_time_msecs)
        /\ \A limit \in (0..MaxCpuSecs) \cup {CpuLimitMax} :
              sieve_resource_usage_is_excessive(limit, ru.before).ret
              => sieve_resource_usage_is_excessive(limit, ru.dst).ret

(* An addition whose sum is beyond UINT_MAX, to a usage that is excessive  *)
(* and not yet UINT_MAX.                                                   *)
C39_Witness ==
    /\ ru.adds > 1
    /\ ru.dst.cpu_time_msecs = UINT_MAX
    /\ ru.before.cpu_time_msecs # UINT_MAX
    /\ ru.src.cpu_time_msecs # UINT_MAX
    /\ sieve_resource_usage_is_excessive(MaxCpuSecs, ru.before).ret

-----------------------------------------------------------------------------
(* The binary that sieve_open_script returns, checked under SpecOpen.      *)

WasClosed(sbin) == \E i \in 1..Len(os.closed) : os.closed[i] = sbin

(* C40: sieve_open_script returns a binary only when                       *)
(* sieve_binary_check_executable has succeeded on that binary, loaded or   *)
(* compiled; when the check fails (0) or errors (below 0) the binary       *)
(* checked is closed, one error is given to the error handler and NULL is  *)
(* returned.                                                               *)
C40_OnlyExecutableReturned ==
    os.done =>
        /\ os.sbin # NoSbin
              => /\ os.checked = <<os.sbin>>
                 /\ sieve_binary_check_executable(os.sbin) > 0
                 /\ ~WasClosed(os.sbin)
                 /\ os.errors = <<>>
                 /\ os.sbin.origin = IF os.compiled THEN "compiled"
                                     ELSE "stored"
        /\ \A i \in 1..Len(os.checked) :
              sieve_binary_check_executable(os.checked[i]) <= 0
              => /\ os.sbin = NoSbin
                 /\ WasClosed(os.checked[i])
                 /\ os.errors =
                      IF sieve_binary_check_executable(os.checked[i]) < 0
                      THEN <<"failed to open script">> ELSE <<"errorstr">>

(* A script was compiled because its stored binary was out of date, and    *)
(* the compiled binary failed the check.                                   *)
C40_Witness ==
    /\ os.done
    /\ os.compiled
    /\ Len(os.closed) = 2
    /\ Len(os.checked) = 1
    /\ sieve_binary_check_executable(os.checked[1]) = 0
    /\ os.sbin = NoSbin

=============================================================================
